---- MODULE Spec2Model ----
(***************************************************************************)
(* Response correlation, progress tracking and batch orchestration of the  *)
(* playlist downloader: src/src/telegram_client.py (TelegramMessenger),    *)
(* src/src/progress_tracker.py (ProgressTracker) and src/src/main.py       *)
(* (SpotifyDownloader).                                                    *)
(*                                                                         *)
(* The orchestrator coroutine and the event handlers are asyncio tasks of  *)
(* one event loop: code between two awaits runs atomically, so every       *)
(* action below is one such segment, and the awaits (send_message, the     *)
(* inter-message sleep, the polling sleeps, message.click, download_file)  *)
(* are the points where the other tasks' actions interleave.               *)
(***************************************************************************)
EXTENDS Integers, Sequences, FiniteSets, TLC

VARIABLES
    next_msg_id,        \* the next message id the transport hands out
    pending_responses,  \* TelegramMessenger.pending_responses, in insertion order
    clicking,           \* button handlers suspended in event.message.click(0)
    downloading,        \* file handlers suspended in download_file, per track
    current_session,    \* ProgressTracker.current_session
    run,                \* the arguments of the run: track list, batch size, mode
    pc,                 \* where the orchestrator coroutine is suspended
    idx,                \* 1-based position in the track list (global_index)
    attempt,            \* send_track_to_bot: attempts already rejected
    start_time,         \* start_time of the wait in progress
    total_wait_time,    \* final drain: sleeps done so far
    last,               \* the outcome of the bot event handled by the last step
    match_count,        \* per request key: how often a match call returned it
    progress_file,      \* the content of ProgressTracker.progress_file
    temp_file,          \* the content of progress_file.with_suffix('.tmp')
    stats_cache,        \* ProgressTracker._stats_cache
    stats_age,          \* time.time() - ProgressTracker._stats_last_updated
    call,               \* the last call of the tracker, and how far its save got
    tally               \* per track: messages sent for it, resets to PENDING

vars == << next_msg_id, pending_responses, clicking, downloading,
           current_session, run, pc, idx, attempt, start_time,
           total_wait_time, last, match_count, progress_file, temp_file,
           stats_cache, stats_age, call, tally >>

-----------------------------------------------------------------------------
(* Time.  The code uses its clocks (datetime.now(), time.time()) only in    *)
(* differences: now - sent_at against response_timeout, time.time() -      *)
(* start_time against a timeout.  The model keeps every timestamp relative *)
(* to the present: the clock reads 0, a tick moves every stored timestamp  *)
(* one unit into the past, and a timestamp that has reached its timeout    *)
(* stays there (older makes no difference to any comparison).              *)
now == 0

(* Bounds of the model.  The timeouts are the code's timeouts on the scale  *)
(* of the model's clock.                                                    *)

MaxMsgId == 3           \* message ids 1..MaxMsgId
response_timeout == 2   \* TelegramConfig.response_timeout
TrackTimeout == 2       \* _wait_for_track_completion(timeout=300)
BatchTimeout == 2       \* _wait_for_batch_completion(timeout=600)
MaxDrainSleeps == 2     \* max_wait_time / 5 sleeps of the final drain
MaxFailures == 2        \* the tracker alone: mark_track_failed while attempts < MaxFailures
MaxWriteFailures == 1   \* the tracker alone: writes that fail in one behaviour
MaxRestarts == 1        \* resumes: times the program is started again
StatsWindow == 2        \* the 5 seconds of the stats cache

(* Program constants. *)
max_retries == 3
max_attempts == 3
confidence_threshold == 70

(* None, for a request or the session; Null for a text field that is None. *)
None == [none |-> TRUE]
Null == "null"

TrackIds == {11, 12, 21}

(* The runs checked: track list (a playlist may hold a track twice),       *)
(* batch size, dispatch mode, the message ids the chat has for the run,    *)
(* the --limit of a resume (0: none) and how often the program has been    *)
(* started again.                                                          *)
Runs ==
    { [tracks |-> <<11, 12, 21>>, batch_size |-> 2, sequential |-> FALSE,
       msg_ids |-> MaxMsgId, limit |-> 0, restarts |-> 0],
      [tracks |-> <<11, 11>>, batch_size |-> 1, sequential |-> FALSE,
       msg_ids |-> MaxMsgId, limit |-> 0, restarts |-> 0],
      [tracks |-> <<11, 12>>, batch_size |-> 2, sequential |-> TRUE,
       msg_ids |-> MaxMsgId, limit |-> 0, restarts |-> 0] }

(* One batch larger than the cap of the safety valve: a playlist of        *)
(* MaxValveTracks entries sent as a single batch.                          *)
MaxValveTracks == 52

ValveRun ==
    [tracks |-> [i \in 1..MaxValveTracks |-> 11], batch_size |-> MaxValveTracks,
     sequential |-> FALSE, msg_ids |-> MaxValveTracks, limit |-> 0, restarts |-> 0]

PENDING == "pending"
SENT_TO_BOT == "sent_to_bot"
DOWNLOADING == "downloading"
COMPLETED == "completed"
FAILED == "failed"
SKIPPED == "skipped"
TrackStatus == {PENDING, SENT_TO_BOT, DOWNLOADING, COMPLETED, FAILED, SKIPPED}

-----------------------------------------------------------------------------
(* Sequences as insertion-ordered dicts. *)

RemoveAt(s, i) == [j \in 1..(Len(s) - 1) |-> IF j < i THEN s[j] ELSE s[j + 1]]

Range(s) == {s[i] : i \in 1..Len(s)}

(* track.id[:8]: the first characters of the id; ids 11 and 12 share them. *)
IdPrefix(track) == track \div 10

(* f"msg_{message.id}_{track.id[:8]}" *)
RequestKey(message_id, track) == <<message_id, IdPrefix(track)>>

PendingRequest(track, sent_at, message_id) ==
    [key |-> RequestKey(message_id, track), track |-> track,
     sent_at |-> sent_at, message_id |-> message_id]

-----------------------------------------------------------------------------
(* Correlation engine: TelegramMessenger *)

(* Fault for C9: a request whose age equals the timeout passes as live. *)
ExpiredAfter(request, t) == request.sent_at < t - response_timeout

(* request.sent_at <= cutoff_time, cutoff_time = now - response_timeout *)
Expired(request, t) == request.sent_at <= t - response_timeout

(* _cleanup_expired_requests: the map without its expired requests *)
cleanup_expired_requests(p, t) == SelectSeq(p, LAMBDA r : ~Expired(r, t))

(* Fault for C8: the comparison of the loop reversed, the latest valid     *)
(* request wins.                                                           *)
RECURSIVE NewestValid(_, _, _, _)
NewestValid(items, i, cutoff_time, oldest) ==
    IF i > Len(items) THEN oldest
    ELSE IF items[i].sent_at > cutoff_time
            /\ (oldest = 0 \/ items[i].sent_at > items[oldest].sent_at)
         THEN NewestValid(items, i + 1, cutoff_time, i)
         ELSE NewestValid(items, i + 1, cutoff_time, oldest)

(* The loop of _find_matching_request over list(items()): the index of the *)
(* first request with the smallest sent_at among those with sent_at >      *)
(* cutoff_time, 0 when there is none.                                      *)
RECURSIVE OldestValid(_, _, _, _)
OldestValid(items, i, cutoff_time, oldest) ==
    IF i > Len(items) THEN oldest
    ELSE IF items[i].sent_at > cutoff_time
            /\ (oldest = 0 \/ items[i].sent_at < items[oldest].sent_at)
         THEN OldestValid(items, i + 1, cutoff_time, i)
         ELSE OldestValid(items, i + 1, cutoff_time, oldest)

(* Fault for C1: the del before the return left out. *)
DeleteKeyKept(p, key) == p

(* What a match call leaves in the map once it has deleted the request it  *)
(* returns.                                                                *)
DeleteKey(p, key) == SelectSeq(p, LAMBDA r : r.key # key)

(* _find_matching_request (FIFO): the request returned, or None, and the   *)
(* map afterwards: the requests at or past the cutoff are deleted in the   *)
(* loop, the oldest valid one before it is returned.                       *)
find_matching_request(p, t) ==
    LET cutoff_time == t - response_timeout
        oldest == OldestValid(p, 1, cutoff_time, 0)
        valid == SelectSeq(p, LAMBDA r : r.sent_at > cutoff_time)
    IN  IF oldest = 0
        THEN [req |-> None, pending |-> valid, via |-> "fifo"]
        ELSE [req |-> p[oldest], pending |-> DeleteKey(valid, p[oldest].key),
              via |-> "fifo"]

(* fuzz.token_sort_ratio is the fuzzywuzzy library's: a document gives, for *)
(* every track, the four ratios the library returns for it.                *)
Profiles == { [filename |-> 100, filename_title |-> 100, performer |-> 100, title |-> 100],
              [filename |-> 70,  filename_title |-> 70,  performer |-> 70,  title |-> 70],
              [filename |-> 100, filename_title |-> 40,  performer |-> 40,  title |-> 40],
              [filename |-> 40,  filename_title |-> 40,  performer |-> 40,  title |-> 40] }

(* The documents a file event may carry, as far as the requests of `tracks` *)
(* can tell them apart: with or without the audio attribute's performer and *)
(* title, and the library's ratios for each track.                         *)
AudioAttributes ==
    { [performer |-> FALSE, title |-> FALSE], [performer |-> TRUE, title |-> TRUE] }

Documents(tracks) ==
    { [performer |-> a.performer, title |-> a.title, ratio |-> r] :
          a \in AudioAttributes, r \in [tracks -> Profiles] }

(* _calculate_track_similarity: the weighted average of the scores present *)
(* (weights 0.6, 0.3, 0.4, 0.5, here times ten), in thousandths of a point. *)
(* The filename is never empty: _extract_filename_and_metadata falls back  *)
(* to "unknown.flac".                                                      *)
calculate_track_similarity(doc, track) ==
    LET r == doc.ratio[track]
        total_weighted == r.filename * 6 + r.filename_title * 3
                          + (IF doc.performer THEN r.performer * 4 ELSE 0)
                          + (IF doc.title THEN r.title * 5 ELSE 0)
        total_weight == 6 + 3 + (IF doc.performer THEN 4 ELSE 0)
                        + (IF doc.title THEN 5 ELSE 0)
    IN  (1000 * total_weighted) \div total_weight

(* score > best_score *)
Better(score, best_score) == score > best_score

(* The scoring loop of _find_best_matching_request: the index of the first *)
(* request with the highest score above 0, 0 when there is none.           *)
RECURSIVE BestScan(_, _, _, _, _)
BestScan(items, i, doc, best, best_score) ==
    IF i > Len(items) THEN best
    ELSE LET score == calculate_track_similarity(doc, items[i].track)
         IN  IF Better(score, best_score)
             THEN BestScan(items, i + 1, doc, i, score)
             ELSE BestScan(items, i + 1, doc, best, best_score)

(* Fault for C7: the threshold itself excluded. *)
ConfidentAbove(best_score) == best_score > confidence_threshold * 1000

(* best_score >= confidence_threshold *)
Confident(best_score) == best_score >= confidence_threshold * 1000

(* _find_best_matching_request *)
find_best_matching_request(p, t, doc) ==
    LET live == cleanup_expired_requests(p, t)
        best == BestScan(live, 1, doc, 0, 0)
        best_score == IF best = 0 THEN 0
                      ELSE calculate_track_similarity(doc, live[best].track)
    IN  IF live = <<>>
        THEN [req |-> None, pending |-> live, via |-> "none"]
        ELSE IF best # 0 /\ Confident(best_score)
             THEN [req |-> live[best], pending |-> DeleteKey(live, live[best].key),
                   via |-> "smart"]
             ELSE find_matching_request(live, t)

(* sorted(items, key=sent_at, reverse=True)[:n]: the n latest requests,     *)
(* latest first, equal times in insertion order.                           *)
RECURSIVE MostRecent(_, _)
MostRecent(p, n) ==
    IF n = 0 \/ p = <<>> THEN <<>>
    ELSE LET i == CHOOSE i \in 1..Len(p) :
                    /\ \A j \in 1..Len(p) : p[j].sent_at <= p[i].sent_at
                    /\ \A j \in 1..(i - 1) : p[j].sent_at < p[i].sent_at
         IN  <<p[i]>> \o MostRecent(RemoveAt(p, i), n - 1)

OrphanCap == 50
OrphanKeep == 30

(* _cleanup_orphaned_requests *)
cleanup_orphaned_requests(p) ==
    IF Len(p) > OrphanCap THEN MostRecent(p, OrphanKeep) ELSE p

(* Fault for C32: the insert writes back a map read before the other      *)
(* entries were registered.                                                *)
PutIntoStale(p, request) == <<request>>

(* self.pending_responses[key] = request: a new key goes last, a key in    *)
(* the map keeps its place.                                                *)
Put(p, request) ==
    IF \E i \in 1..Len(p) : p[i].key = request.key
    THEN [i \in 1..Len(p) |-> IF p[i].key = request.key THEN request ELSE p[i]]
    ELSE Append(p, request)

-----------------------------------------------------------------------------
(* Session state machine: ProgressTracker *)

TrackProgress ==
    [status |-> PENDING, attempts |-> 0, error_message |-> Null,
     file_path |-> Null, file_size |-> 0]

(* start_session: total_tracks is the length of the list, the entries are  *)
(* keyed by track id.                                                      *)
start_session(tracks) ==
    [total_tracks |-> Len(tracks),
     tracks |-> [id \in Range(tracks) |-> TrackProgress],
     completed_at |-> Null]

(* Fault for C31: a completed track keeps its earlier error message and a  *)
(* failure is not counted.                                                 *)
update_keeps_error(session, track_id, status, error_message, file_path, file_size) ==
    IF session = None \/ track_id \notin DOMAIN session.tracks
    THEN session
    ELSE LET track == session.tracks[track_id]
             updated ==
                 IF status = FAILED
                 THEN [track EXCEPT !.status = status,
                                    !.error_message = error_message]
                 ELSE IF status = COMPLETED
                 THEN [track EXCEPT !.status = status,
                                    !.file_path = file_path,
                                    !.file_size = file_size]
                 ELSE [track EXCEPT !.status = status]
         IN  [session EXCEPT !.tracks[track_id] = updated]

(* update_track_status *)
update_track_status(session, track_id, status, error_message, file_path, file_size) ==
    IF session = None \/ track_id \notin DOMAIN session.tracks
    THEN session
    ELSE LET track == session.tracks[track_id]
             updated ==
                 IF status = FAILED
                 THEN [track EXCEPT !.status = status,
                                    !.attempts = @ + 1,
                                    !.error_message = error_message]
                 ELSE IF status = COMPLETED
                 THEN [track EXCEPT !.status = status,
                                    !.file_path = file_path,
                                    !.file_size = file_size,
                                    !.error_message = Null]
                 ELSE [track EXCEPT !.status = status]
         IN  [session EXCEPT !.tracks[track_id] = updated]

mark_track_sent(session, track_id) ==
    update_track_status(session, track_id, SENT_TO_BOT, Null, Null, 0)

mark_track_downloading(session, track_id) ==
    update_track_status(session, track_id, DOWNLOADING, Null, Null, 0)

mark_track_completed(session, track_id, file_path, file_size) ==
    update_track_status(session, track_id, COMPLETED, Null, file_path, file_size)

mark_track_failed(session, track_id, error_message) ==
    update_track_status(session, track_id, FAILED, error_message, Null, 0)

(* complete_session *)
complete_session(session) ==
    IF session = None THEN session ELSE [session EXCEPT !.completed_at = "set"]

(* get_tracks_by_status, counted *)
StatusCount(session, status) ==
    Cardinality({id \in DOMAIN session.tracks : session.tracks[id].status = status})

(* Fault for C25: no track is taken as completed. *)
never_completed(session, track_id) == FALSE

(* _is_track_completed *)
is_track_completed(session, track_id) ==
    /\ session # None
    /\ track_id \in DOMAIN session.tracks
    /\ session.tracks[track_id].status = COMPLETED

(* track_status not in [COMPLETED, FAILED] *)
Incomplete(session, track_id) ==
    session.tracks[track_id].status \notin {COMPLETED, FAILED}

-----------------------------------------------------------------------------
(* The progress file: save_progress and load_session.  A JSON value is     *)
(* null, a string or a number; the file holds one object, or is cut short. *)

Absent == [absent |-> TRUE]
Partial == [partial |-> TRUE]

json_null == [type |-> "null"]
json_string(s) == [type |-> "string", value |-> s]
json_number(n) == [type |-> "number", value |-> n]

(* json.dump of an Optional[str] *)
json_optional(v) == IF v = Null THEN json_null ELSE json_string(v)

(* class TrackStatus(Enum): the value of a member *)
StatusValue(status) ==
    CASE status = PENDING -> "pending"
      [] status = SENT_TO_BOT -> "sent_to_bot"
      [] status = DOWNLOADING -> "downloading"
      [] status = COMPLETED -> "completed"
      [] status = FAILED -> "failed"
      [] status = SKIPPED -> "skipped"

(* Fault for C15: the member is dumped as str(member), not as its value. *)
status_member_to_json(status) == json_string("TrackStatus." \o StatusValue(status))

(* track_dict['status'] = track_progress.status.value *)
status_to_json(status) == json_string(StatusValue(status))

(* track_dict of save_progress: the status as above, the other fields as   *)
(* asdict gives them.                                                      *)
track_to_json(track) ==
    [status |-> status_to_json(track.status),
     attempts |-> json_number(track.attempts),
     error_message |-> json_optional(track.error_message),
     file_path |-> json_optional(track.file_path),
     file_size |-> json_number(track.file_size)]

(* session_dict of save_progress *)
session_to_json(session) ==
    [total_tracks |-> json_number(session.total_tracks),
     completed_at |-> json_optional(session.completed_at),
     tracks |-> [id \in DOMAIN session.tracks |-> track_to_json(session.tracks[id])]]

(* json.load of one value *)
from_json(v) == IF v.type = "null" THEN Null ELSE v.value

(* TrackStatus(track_data['status']) succeeds: the value is a member's *)
IsStatusValue(v) == v.type = "string" /\ \E s \in TrackStatus : StatusValue(s) = v.value

(* TrackStatus(value): the member with that value *)
StatusOfValue(value) == CHOOSE s \in TrackStatus : StatusValue(s) = value

(* The TrackProgress built from track_data *)
track_from_json(track_data) ==
    [status |-> StatusOfValue(from_json(track_data.status)),
     attempts |-> from_json(track_data.attempts),
     error_message |-> from_json(track_data.error_message),
     file_path |-> from_json(track_data.file_path),
     file_size |-> from_json(track_data.file_size)]

(* load_session: None if the file does not exist, cannot be parsed         *)
(* (JSONDecodeError) or holds a status that is no member (ValueError),     *)
(* else the SessionProgress built from session_data.                      *)
load_session(file) ==
    IF file = Absent \/ file = Partial THEN None
    ELSE IF \E id \in DOMAIN file.tracks : ~IsStatusValue(file.tracks[id].status)
    THEN None
    ELSE [total_tracks |-> from_json(file.total_tracks),
          completed_at |-> from_json(file.completed_at),
          tracks |-> [id \in DOMAIN file.tracks |-> track_from_json(file.tracks[id])]]

(* The last call of the tracker that could change the session: its name,   *)
(* where it is (in save_progress with the temp file opened or dumped, or   *)
(* returned), how its write ended, what get_session_stats has returned     *)
(* since, and how many writes have failed so far.                          *)
Call(name, at, write, failed_writes) ==
    [name |-> name, at |-> at, write |-> write, stats |-> None, info |-> None,
     failed_writes |-> failed_writes]

(* No call of the tracker yet *)
NoCall == Call("none", "returned", "none", 0)

(* save_progress as one step, the write succeeding: after a step that      *)
(* called a mutating operation of the tracker the file holds the dump of   *)
(* the session.                                                            *)
Written ==
    /\ progress_file' = IF current_session' = current_session
                         THEN progress_file
                         ELSE session_to_json(current_session')
    /\ UNCHANGED <<temp_file, stats_cache, stats_age, call>>

Saved == Written /\ UNCHANGED tally

-----------------------------------------------------------------------------
(* Batch orchestrator: SpotifyDownloader._process_tracks.  The coroutine is *)
(* suspended at pc; an action runs it from one await to the next.          *)

NoEvent == [op |-> "none", req |-> None, via |-> "none", prior |-> None]

(* A new process: nothing sent, no session in memory, no stats cached. *)
Fresh ==
    /\ next_msg_id = 1
    /\ pending_responses = <<>>
    /\ clicking = {}
    /\ downloading = [t \in TrackIds |-> 0]
    /\ current_session = None
    /\ pc = "start"
    /\ idx = 0
    /\ attempt = 0
    /\ start_time = 0
    /\ total_wait_time = 0
    /\ last = NoEvent
    /\ match_count = <<>>
    /\ temp_file = Absent
    /\ stats_cache = None
    /\ stats_age = StatsWindow
    /\ call = NoCall
    /\ tally = [t \in TrackIds |-> [sends |-> 0, resets |-> 0]]

(* A first run: no progress file yet. *)
InitOf(runs) ==
    /\ Fresh
    /\ run \in runs
    /\ progress_file = Absent

Init == InitOf(Runs)

total_tracks == Len(run.tracks)

(* The track at global_index idx *)
track_at == run.tracks[idx]

(* batch = tracks[batch_start:batch_end] of the full batch that ends at j *)
batch_track_ids(j) == SubSeq(run.tracks, j - run.batch_size + 1, j)

(* The parallel branch waits for the batch after its last iteration,       *)
(* unless it is the last batch: if batch_end < total_tracks.               *)
BatchWaitDue(j) ==
    /\ ~run.sequential
    /\ j % run.batch_size = 0
    /\ j < total_tracks

(* The tracks of the batch that are neither COMPLETED nor FAILED *)
incomplete_tracks(session, ids) ==
    SelectSeq(ids, LAMBDA id : id \in DOMAIN session.tracks /\ Incomplete(session, id))

(* Where the coroutine is suspended next, and what it has changed by then. *)
Suspended(at, j, session, p, since, waited) ==
    [pc |-> at, idx |-> j, session |-> session, pending |-> p,
     start_time |-> since, total_wait_time |-> waited]

(* One check of the final drain loop: get_pending_count() purges the       *)
(* expired requests; with nothing pending and no incomplete track the loop *)
(* breaks and complete_session is called, otherwise asyncio.sleep(5).      *)
drain_check(session, p, j, waited) ==
    LET live == cleanup_expired_requests(p, now)
    IN  IF /\ Len(live) = 0
           /\ \A id \in DOMAIN session.tracks : ~Incomplete(session, id)
        THEN Suspended("done", j, complete_session(session), live, 0, waited)
        ELSE Suspended("drain_sleep", j, session, live, 0, waited)

(* The loop over the tracks from global_index j on, up to its next await:  *)
(* a completed track is skipped (continue); for any other track            *)
(* send_track_to_bot awaits client.send_message; after the last track the  *)
(* drain begins.  At the end of a batch that is not the last,              *)
(* _wait_for_batch_completion makes its first poll at once and sleeps only *)
(* if a track of the batch is incomplete.                                  *)
RECURSIVE process_from(_, _, _)
RECURSIVE end_of_iteration(_, _, _)
process_from(session, p, j) ==
    IF j > total_tracks
    THEN drain_check(session, p, j, 0)
    ELSE IF is_track_completed(session, run.tracks[j])
         THEN end_of_iteration(session, p, j)
         ELSE Suspended("sending", j, session, p, 0, 0)

end_of_iteration(session, p, j) ==
    IF BatchWaitDue(j) /\ incomplete_tracks(session, batch_track_ids(j)) # <<>>
    THEN Suspended("wait_batch", j, session, p, now, 0)
    ELSE process_from(session, p, j + 1)

(* The coroutine runs on to the suspension point c. *)
RunOn(c) ==
    /\ pc' = c.pc
    /\ idx' = c.idx
    /\ current_session' = c.session
    /\ pending_responses' = c.pending
    /\ start_time' = c.start_time
    /\ total_wait_time' = c.total_wait_time
    /\ attempt' = 0
    /\ last' = NoEvent
    /\ UNCHANGED <<run, match_count, next_msg_id, clicking, downloading>>

(* The same, every change of the session saved. *)
RunTo(c) == RunOn(c) /\ Saved

(* _start_new_session: progress_tracker.start_session, then _process_tracks *)
StartSession ==
    /\ pc = "start"
    /\ RunTo(process_from(start_session(run.tracks), pending_responses, 1))

(* send_message returned: the request is registered, and send_track_to_bot *)
(* sleeps delay_between_requests.                                          *)
SendOk ==
    /\ pc = "sending"
    /\ next_msg_id <= run.msg_ids
    /\ pending_responses' =
           Put(pending_responses, PendingRequest(track_at, now, next_msg_id))
    /\ next_msg_id' = next_msg_id + 1
    /\ pc' = "delay"
    /\ attempt' = 0
    /\ last' = NoEvent
    /\ UNCHANGED <<clicking, downloading, current_session, idx, start_time,
                   total_wait_time, run, match_count>>
    /\ Written
    /\ tally' = [tally EXCEPT ![track_at].sends = @ + 1]

(* Fault for C26: the request is registered before send_message, and left  *)
(* in the map when the last attempt is rejected.                           *)
SendRejectedRegistered ==
    /\ pc = "sending"
    /\ IF attempt + 1 < max_retries
       THEN /\ attempt' = attempt + 1
            /\ last' = NoEvent
            /\ UNCHANGED <<pc, idx, start_time, current_session, pending_responses,
                           total_wait_time, run, match_count, next_msg_id,
                           clicking, downloading>>
            /\ Saved
       ELSE RunTo(end_of_iteration(
                      mark_track_failed(current_session, track_at, "Failed to send to bot"),
                      Put(pending_responses, PendingRequest(track_at, now, next_msg_id)),
                      idx))

(* send_message raised (FloodWaitError or another exception): after the    *)
(* wait the next attempt, or False after max_retries attempts, and then    *)
(* mark_track_failed(track.id, "Failed to send to bot").                   *)
SendRejected ==
    /\ pc = "sending"
    /\ IF attempt + 1 < max_retries
       THEN /\ attempt' = attempt + 1
            /\ last' = NoEvent
            /\ UNCHANGED <<pc, idx, start_time, current_session, pending_responses,
                           total_wait_time, run, match_count, next_msg_id,
                           clicking, downloading>>
            /\ Saved
       ELSE RunTo(end_of_iteration(
                      mark_track_failed(current_session, track_at, "Failed to send to bot"),
                      pending_responses, idx))

(* The sleep after the send is over, send_track_to_bot returns True:       *)
(* mark_track_sent; in sequential mode _wait_for_track_completion, whose   *)
(* first poll finds the track at SENT_TO_BOT and sleeps.                   *)
DelayDone ==
    /\ pc = "delay"
    /\ LET session == mark_track_sent(current_session, track_at)
       IN  IF run.sequential
           THEN RunTo(Suspended("wait_track", idx, session, pending_responses, now, 0))
           ELSE RunTo(end_of_iteration(session, pending_responses, idx))

(* (time.time() - start_time) < timeout *)
WithinTimeout(timeout) == now - start_time < timeout

(* Fault for C6: the wait for the track returns at its first poll. *)
TrackWaitOverAtOnce == TRUE

(* The loop of _wait_for_track_completion ends: the timeout is over, or a  *)
(* poll finds the track COMPLETED or FAILED (or not in the session).       *)
TrackWaitOver ==
    \/ ~WithinTimeout(TrackTimeout)
    \/ track_at \notin DOMAIN current_session.tracks
    \/ ~Incomplete(current_session, track_at)

TrackWaitDone ==
    /\ pc = "wait_track"
    /\ TrackWaitOver
    /\ RunTo(process_from(current_session, pending_responses, idx + 1))

RECURSIVE MarkAllFailed(_, _, _)
MarkAllFailed(session, ids, error_message) ==
    IF ids = <<>> THEN session
    ELSE MarkAllFailed(mark_track_failed(session, Head(ids), error_message),
                       Tail(ids), error_message)

(* Fault for C5: the wait for the batch returns at its first poll. *)
BatchWaitOverAtOnce == TRUE

(* The loop of _wait_for_batch_completion ends: the timeout is over, or a  *)
(* poll finds no incomplete track.                                         *)
BatchWaitOver ==
    \/ ~WithinTimeout(BatchTimeout)
    \/ incomplete_tracks(current_session, batch_track_ids(idx)) = <<>>

(* _wait_for_batch_completion leaves its loop and makes its final status   *)
(* check: every track of the batch still incomplete is marked failed.      *)
BatchWaitDone ==
    /\ pc = "wait_batch"
    /\ BatchWaitOver
    /\ RunTo(process_from(
                 MarkAllFailed(current_session,
                               incomplete_tracks(current_session, batch_track_ids(idx)),
                               "Batch timeout"),
                 pending_responses, idx + 1))

(* Fault for C29: the drain loop has no limit on its waiting time. *)
DrainWakeUnbounded ==
    /\ pc = "drain_sleep"
    /\ RunTo(drain_check(current_session, pending_responses, idx, total_wait_time))

(* The sleep of the drain loop is over: total_wait_time += 5; the loop     *)
(* checks again, or its condition fails and the session is completed.      *)
DrainWake ==
    /\ pc = "drain_sleep"
    /\ IF total_wait_time + 1 < MaxDrainSleeps
       THEN RunTo(drain_check(current_session, pending_responses, idx,
                              total_wait_time + 1))
       ELSE RunTo(Suspended("done", idx, complete_session(current_session),
                            pending_responses, 0, total_wait_time + 1))

(* handle_download's finally: downloader.cleanup() disconnects the client. *)
Cleanup ==
    /\ pc = "done"
    /\ pc' = "closed"
    /\ last' = NoEvent
    /\ UNCHANGED <<next_msg_id, pending_responses, clicking, downloading,
                   current_session, idx, attempt, start_time, total_wait_time,
                   run, match_count>>
    /\ Saved

-----------------------------------------------------------------------------
(* Bot events: TelegramMessenger._handle_bot_response and the callbacks of *)
(* SpotifyDownloader.  The client delivers events until it is disconnected. *)

Connected == pc # "closed"

(* A match call returned `request`. *)
Returned(request) ==
    IF request = None THEN match_count
    ELSE IF request.key \in DOMAIN match_count
         THEN [match_count EXCEPT ![request.key] = @ + 1]
         ELSE match_count @@ (request.key :> 1)

(* What `last` keeps of a match call of the handler of `op`: the request   *)
(* returned, or that the event went unmatched.                             *)
Outcome(op, m) ==
    IF m.req = None
    THEN [op |-> "unmatched", req |-> None, via |-> "none", prior |-> None]
    ELSE [op |-> op, req |-> m.req, via |-> m.via, prior |-> None]

HandlerStep == UNCHANGED <<run, pc, idx, attempt, start_time, total_wait_time>>

PendingTracks(p) == {p[i].track : i \in 1..Len(p)}

(* The match call of a button or photo handler: the purge at the head of   *)
(* _handle_bot_response, then _find_matching_request.                      *)
fifo_match ==
    find_matching_request(cleanup_expired_requests(pending_responses, now), now)

(* The match call of the file handler: the purge, then                     *)
(* _find_best_matching_request for the document's filename and metadata.   *)
file_match(doc) ==
    find_best_matching_request(cleanup_expired_requests(pending_responses, now),
                               now, doc)

(* A message with a document: _handle_file_response, and on a match        *)
(* _handle_file_downloaded up to its await of download_file.               *)
HandleFile(doc) ==
    LET m == file_match(doc)
    IN  /\ Connected
        /\ last' = Outcome("file", m)
        /\ match_count' = Returned(m.req)
        /\ IF m.req = None
           THEN /\ pending_responses' = cleanup_orphaned_requests(m.pending)
                /\ UNCHANGED <<current_session, downloading>>
           ELSE /\ pending_responses' = m.pending
                /\ current_session' = mark_track_downloading(current_session, m.req.track)
                /\ downloading' = [downloading EXCEPT ![m.req.track] = @ + 1]
        /\ HandlerStep
        /\ UNCHANGED <<next_msg_id, clicking>>
        /\ Saved

BotFile ==
    \E doc \in Documents(PendingTracks(cleanup_expired_requests(pending_responses, now))) :
        HandleFile(doc)

(* download_file returned True and move_to_organized_location succeeded:   *)
(* mark_track_completed.                                                   *)
DownloadCompleted(track) ==
    /\ Connected
    /\ downloading[track] > 0
    /\ downloading' = [downloading EXCEPT ![track] = @ - 1]
    /\ current_session' = mark_track_completed(current_session, track, "path", 1)
    /\ last' = NoEvent
    /\ HandlerStep
    /\ UNCHANGED <<next_msg_id, pending_responses, clicking, match_count>>
    /\ Saved

(* How a download that does not end in a completed track ends: the wait of *)
(* download_file timed out, the downloaded file is empty, or the moved     *)
(* file did not validate.                                                  *)
DownloadCauses == { "timeout", "empty", "validation" }

(* The error message _handle_file_downloaded records for an outcome.        *)
(* download_file returns False for a timeout and for an empty file, having *)
(* printed which one it was, and the handler records its own text; else    *)
(* it records the message of the result of move_to_organized_location.     *)
download_error(cause) ==
    LET download_success == cause \notin { "timeout", "empty" }
    IN  IF download_success THEN "File validation failed after move"
        ELSE "Failed to download from Telegram"

(* The messages a failed download is recorded with.                        *)
DownloadErrors == { download_error(cause) : cause \in DownloadCauses }

(* download_file returned False or the move failed: mark_track_failed with *)
(* the handler's message for it.  `last` keeps how the download ended.     *)
DownloadFailed(track, cause) ==
    /\ Connected
    /\ downloading[track] > 0
    /\ downloading' = [downloading EXCEPT ![track] = @ - 1]
    /\ current_session' =
           mark_track_failed(current_session, track, download_error(cause))
    /\ last' = [op |-> "download_failed", req |-> None, via |-> cause,
                prior |-> None]
    /\ HandlerStep
    /\ UNCHANGED <<next_msg_id, pending_responses, clicking, match_count>>
    /\ Saved

(* A message with buttons: _handle_button_response up to its await of      *)
(* event.message.click(0).  The event's message id is a fresh one.         *)
BotButtons ==
    LET m == fifo_match
    IN  /\ Connected
        /\ m.req # None => next_msg_id <= run.msg_ids
        /\ last' = Outcome("buttons", m)
        /\ match_count' = Returned(m.req)
        /\ pending_responses' = m.pending
        /\ IF m.req = None
           THEN UNCHANGED <<clicking, next_msg_id>>
           ELSE /\ clicking' = clicking \cup
                        {[matched_request |-> m.req, message_id |-> next_msg_id]}
                /\ next_msg_id' = next_msg_id + 1
        /\ HandlerStep
        /\ UNCHANGED <<current_session, downloading>>
        /\ Saved

(* Fault for C10: the new request keeps the send time of the matched one. *)
stale_request(c) ==
    PendingRequest(c.matched_request.track, c.matched_request.sent_at, c.message_id)

(* new_request = PendingRequest(track=track, message_id=event.message.id,  *)
(* sent_at=datetime.now())                                                 *)
new_request(c) == PendingRequest(c.matched_request.track, now, c.message_id)

(* The click returned: the new request for the file phase is registered    *)
(* under the key of the prompt's message, with sent_at = datetime.now().   *)
ClickDone(c) ==
    /\ Connected
    /\ c \in clicking
    /\ clicking' = clicking \ {c}
    /\ pending_responses' = Put(pending_responses, new_request(c))
    /\ last' = [op |-> "clicked", via |-> "none", prior |-> c.matched_request,
                req |-> new_request(c)]
    /\ HandlerStep
    /\ UNCHANGED <<next_msg_id, downloading, current_session, match_count>>
    /\ Saved

(* The click raised: on_download_failed(track, "Failed to select track     *)
(* option: ...").                                                          *)
ClickFailed(c) ==
    /\ Connected
    /\ c \in clicking
    /\ clicking' = clicking \ {c}
    /\ current_session' =
           mark_track_failed(current_session, c.matched_request.track,
                             "Failed to select track option")
    /\ last' = NoEvent
    /\ HandlerStep
    /\ UNCHANGED <<next_msg_id, pending_responses, downloading, match_count>>
    /\ Saved

(* Fault for C11: the not-found reply leaves the track as it is. *)
nothing_found_ignored(session, request) == session

(* on_download_failed(matching_request.track, "Track not found by bot"):   *)
(* _handle_download_failed calls mark_track_failed.                        *)
handle_nothing_found(session, request) ==
    mark_track_failed(session, request.track, "Track not found by bot")

(* Fault for C12: without the early return, a not-found reply that matches *)
(* no request fails every track still waiting.                             *)
nothing_found_unguarded(session, m) ==
    IF m.req # None THEN handle_nothing_found(session, m.req)
    ELSE IF session = None THEN session
    ELSE MarkAllFailed(session, incomplete_tracks(session, run.tracks),
                       "Track not found by bot")

(* _handle_nothing_found_response: `if not matched_request: return`, else  *)
(* on_download_failed for the matched request's track.                     *)
nothing_found_response(session, m) ==
    IF m.req = None THEN session ELSE handle_nothing_found(session, m.req)

(* A message with a photo: _handle_nothing_found_response and              *)
(* _handle_download_failed.                                                *)
BotPhoto ==
    LET m == fifo_match
    IN  /\ Connected
        /\ last' = Outcome("photo", m)
        /\ match_count' = Returned(m.req)
        /\ pending_responses' = m.pending
        /\ current_session' = nothing_found_response(current_session, m)
        /\ HandlerStep
        /\ UNCHANGED <<next_msg_id, clicking, downloading>>
        /\ Saved

(* A text message: only the purge at the head of _handle_bot_response. *)
BotText ==
    /\ Connected
    /\ pending_responses' = cleanup_expired_requests(pending_responses, now)
    /\ last' = NoEvent
    /\ HandlerStep
    /\ UNCHANGED <<next_msg_id, clicking, downloading, current_session, match_count>>
    /\ Saved

(* A timestamp one tick later, seen from the present. *)
Older(t, timeout) == IF t - 1 < now - timeout THEN now - timeout ELSE t - 1

(* Time passes. *)
Tick ==
    /\ Connected
    /\ pending_responses' =
           [i \in 1..Len(pending_responses) |->
               [pending_responses[i] EXCEPT !.sent_at = Older(@, response_timeout)]]
    /\ clicking' =
           {[c EXCEPT !.matched_request.sent_at = Older(@, response_timeout)] :
               c \in clicking}
    /\ start_time' =
           IF pc = "wait_track" THEN Older(start_time, TrackTimeout)
           ELSE IF pc = "wait_batch" THEN Older(start_time, BatchTimeout)
           ELSE start_time
    /\ last' = NoEvent
    /\ UNCHANGED <<next_msg_id, downloading, current_session, run, pc,
                   idx, attempt, total_wait_time, match_count>>
    /\ Saved

Next ==
    \/ StartSession
    \/ SendOk
    \/ SendRejected
    \/ DelayDone
    \/ TrackWaitDone
    \/ BatchWaitDone
    \/ DrainWake
    \/ Cleanup
    \/ BotFile
    \/ \E t \in TrackIds : DownloadCompleted(t)
    \/ \E t \in TrackIds, cause \in DownloadCauses : DownloadFailed(t, cause)
    \/ BotButtons
    \/ \E c \in clicking : ClickDone(c)
    \/ \E c \in clicking : ClickFailed(c)
    \/ BotPhoto
    \/ BotText
    \/ Tick

Spec == Init /\ [][Next]_vars

(* The run with its scheduling: a coroutine that can go on does go on (the *)
(* transport answers a send with a message or an error, a sleep returns),  *)
(* and time passes.  Nothing is assumed of the bot.                        *)
LiveSpec ==
    /\ Spec
    /\ WF_vars(StartSession)
    /\ WF_vars(SendOk \/ SendRejected)
    /\ WF_vars(DelayDone)
    /\ WF_vars(TrackWaitDone)
    /\ WF_vars(BatchWaitDone)
    /\ WF_vars(DrainWake)
    /\ WF_vars(Tick)

-----------------------------------------------------------------------------
(* The tracker on its own: any sequence of calls of ProgressTracker, the   *)
(* writes of save_progress step by step (open the temp file, dump, rename) *)
(* with a failure or the end of the process possible at each step.         *)

StoreTrackLists == { <<11>>, <<12>>, <<11, 11>> }

StoreFrame ==
    UNCHANGED <<next_msg_id, pending_responses, clicking, downloading, run, pc,
                idx, attempt, start_time, total_wait_time, last, match_count,
                tally>>

StoreInit ==
    InitOf({[tracks |-> <<>>, batch_size |-> 1, sequential |-> FALSE, msg_ids |-> 0,
             limit |-> 0, restarts |-> 0]})

(* mark_track_skipped: update_track_status stores error_message only for   *)
(* FAILED, so the reason is dropped.                                       *)
mark_track_skipped(session, track_id) ==
    update_track_status(session, track_id, SKIPPED, "reason", Null, 0)

(* get_session_stats, computed: the counts by status, processed and        *)
(* is_completed.                                                           *)
session_stats(session) ==
    LET completed == StatusCount(session, COMPLETED)
        failed == StatusCount(session, FAILED)
        skipped == StatusCount(session, SKIPPED)
    IN  [total_tracks |-> session.total_tracks,
         completed |-> completed,
         failed |-> failed,
         skipped |-> skipped,
         pending |-> StatusCount(session, PENDING),
         sent_to_bot |-> StatusCount(session, SENT_TO_BOT),
         downloading |-> StatusCount(session, DOWNLOADING),
         processed |-> completed + failed + skipped,
         is_completed |-> completed + failed + skipped = session.total_tracks]

(* `return {}` of get_session_stats without a session *)
EmptyStats == [empty |-> TRUE]

(* _invalidate_stats_cache *)
InvalidateStatsCache ==
    /\ stats_cache' = None
    /\ stats_age' = StatsWindow

(* The calls that end with _invalidate_stats_cache: update_track_status,   *)
(* complete_session, reset_progress.  start_session does not.              *)
Invalidates(name) == name # "start_session"

(* The call returns to its caller: save_progress is over (its except       *)
(* clause prints a warning when the write failed), then the cache is       *)
(* invalidated by the calls that do so.                                    *)
Return(name, write) ==
    /\ call' = Call(name, "returned", write,
                    call.failed_writes + (IF write = "failed" THEN 1 ELSE 0))
    /\ IF Invalidates(name) THEN InvalidateStatsCache
       ELSE UNCHANGED <<stats_cache, stats_age>>

(* The sessions a mutating call makes of the current one *)
Mutations ==
    {[name |-> "start_session", session |-> start_session(tracks)] :
        tracks \in StoreTrackLists}
    \cup
    (IF current_session = None THEN {}
     ELSE {[name |-> "complete_session", session |-> complete_session(current_session)]}
          \cup UNION {
            {[name |-> "mark_track_sent",
              session |-> mark_track_sent(current_session, id)],
             [name |-> "mark_track_downloading",
              session |-> mark_track_downloading(current_session, id)],
             [name |-> "mark_track_completed",
              session |-> mark_track_completed(current_session, id, "path", 1)],
             [name |-> "mark_track_skipped",
              session |-> mark_track_skipped(current_session, id)]}
            \cup
            (IF current_session.tracks[id].attempts < MaxFailures
             THEN {[name |-> "mark_track_failed",
                    session |-> mark_track_failed(current_session, id, "error")]}
             ELSE {})
            : id \in DOMAIN current_session.tracks })

(* A mutating call up to open(temp_file, 'w'): the session is changed in   *)
(* memory, the temp file is created or truncated.                          *)
OpenTemp(m) ==
    /\ call.at = "returned"
    /\ current_session' = m.session
    /\ temp_file' = Partial
    /\ call' = Call(m.name, "opened", "none", call.failed_writes)
    /\ UNCHANGED <<progress_file, stats_cache, stats_age>>
    /\ StoreFrame

(* open raised (the directory cannot be written): caught by save_progress. *)
OpenFails(m) ==
    /\ call.at = "returned"
    /\ call.failed_writes < MaxWriteFailures
    /\ current_session' = m.session
    /\ Return(m.name, "failed")
    /\ UNCHANGED <<progress_file, temp_file>>
    /\ StoreFrame

(* json.dump wrote the whole document and the file was closed. *)
DumpDone ==
    /\ call.at = "opened"
    /\ temp_file' = session_to_json(current_session)
    /\ call' = [call EXCEPT !.at = "dumped"]
    /\ UNCHANGED <<current_session, progress_file, stats_cache, stats_age>>
    /\ StoreFrame

(* The dump raised part way (the disk is full): caught by save_progress. *)
DumpFails ==
    /\ call.at = "opened"
    /\ call.failed_writes < MaxWriteFailures
    /\ Return(call.name, "failed")
    /\ UNCHANGED <<current_session, progress_file, temp_file>>
    /\ StoreFrame

(* temp_file.rename(self.progress_file) *)
RenameDone ==
    /\ call.at = "dumped"
    /\ progress_file' = temp_file
    /\ temp_file' = Absent
    /\ Return(call.name, "ok")
    /\ UNCHANGED current_session
    /\ StoreFrame

(* The rename raised: caught by save_progress. *)
RenameFails ==
    /\ call.at = "dumped"
    /\ call.failed_writes < MaxWriteFailures
    /\ Return(call.name, "failed")
    /\ UNCHANGED <<current_session, progress_file, temp_file>>
    /\ StoreFrame

(* reset_progress *)
ResetProgress ==
    /\ call.at = "returned"
    /\ progress_file' = Absent
    /\ current_session' = None
    /\ Return("reset_progress", "none")
    /\ UNCHANGED temp_file
    /\ StoreFrame

(* load_session called by the running process: the session of the file     *)
(* replaces the one in memory; None is returned (and the session in memory *)
(* kept) when the file is missing or cannot be decoded.                    *)
LoadSession ==
    /\ call.at = "returned"
    /\ current_session' =
           IF load_session(progress_file) = None THEN current_session
           ELSE load_session(progress_file)
    /\ call' = Call("load_session", "returned", "none", call.failed_writes)
    /\ UNCHANGED <<progress_file, temp_file, stats_cache, stats_age>>
    /\ StoreFrame

(* get_session_stats: the cached result while it is younger than the       *)
(* window, else {} without a session, else the counts, which are cached.   *)
GetSessionStats ==
    /\ call.at = "returned"
    /\ IF stats_cache # None /\ stats_age < StatsWindow
       THEN /\ call' = [call EXCEPT !.stats = stats_cache]
            /\ UNCHANGED <<stats_cache, stats_age>>
       ELSE IF current_session = None
       THEN /\ call' = [call EXCEPT !.stats = EmptyStats]
            /\ UNCHANGED <<stats_cache, stats_age>>
       ELSE /\ call' = [call EXCEPT !.stats = session_stats(current_session)]
            /\ stats_cache' = session_stats(current_session)
            /\ stats_age' = 0
    /\ UNCHANGED <<current_session, progress_file, temp_file>>
    /\ StoreFrame

(* get_resume_info after load_session and get_session_stats: None for a    *)
(* session whose stats say is_completed, else the counts of the stats and  *)
(* can_resume.                                                             *)
get_resume_info(session, stats) ==
    IF stats.is_completed THEN None
    ELSE [total_tracks |-> session.total_tracks,
          pending_count |-> stats.pending,
          failed_count |-> stats.failed,
          completed_count |-> stats.completed,
          can_resume |-> (stats.pending > 0 \/ stats.failed > 0)]

(* get_resume_info called by the running process: load_session replaces   *)
(* the session in memory; without a session None is returned; the stats    *)
(* are those of get_session_stats, cached ones included.                   *)
GetResumeInfo ==
    /\ call.at = "returned"
    /\ LET session == load_session(progress_file)
           cached == stats_cache # None /\ stats_age < StatsWindow
           stats == IF cached THEN stats_cache ELSE session_stats(session)
       IN  IF session = None
           THEN /\ call' = [Call("get_resume_info", "returned", "none",
                                  call.failed_writes) EXCEPT !.info = None]
                /\ UNCHANGED <<current_session, stats_cache, stats_age>>
           ELSE /\ current_session' = session
                /\ call' = [Call("get_resume_info", "returned", "none",
                                  call.failed_writes)
                                EXCEPT !.info = get_resume_info(session, stats)]
                /\ IF cached THEN UNCHANGED <<stats_cache, stats_age>>
                   ELSE stats_cache' = stats /\ stats_age' = 0
    /\ UNCHANGED <<progress_file, temp_file>>
    /\ StoreFrame

(* A tick of the clock ages the cached stats. *)
StoreTick ==
    /\ stats_cache # None
    /\ stats_age < StatsWindow
    /\ stats_age' = stats_age + 1
    /\ UNCHANGED <<current_session, progress_file, temp_file, stats_cache, call>>
    /\ StoreFrame

(* The process ends (an interrupt, a kill) wherever it is, and the program *)
(* is started again: a new tracker, the files as they were left.           *)
Restart ==
    /\ current_session' = None
    /\ stats_cache' = None
    /\ stats_age' = StatsWindow
    /\ call' = Call("none", "returned", "none", call.failed_writes)
    /\ UNCHANGED <<progress_file, temp_file>>
    /\ StoreFrame

StoreNext ==
    \/ \E m \in Mutations : OpenTemp(m)
    \/ \E m \in Mutations : OpenFails(m)
    \/ DumpDone
    \/ DumpFails
    \/ RenameDone
    \/ RenameFails
    \/ ResetProgress
    \/ LoadSession
    \/ Restart

StoreSpec == StoreInit /\ [][StoreNext]_vars

(* The tracker and its stats cache, every write succeeding. *)
CacheNext ==
    \/ \E m \in Mutations : OpenTemp(m)
    \/ DumpDone
    \/ RenameDone
    \/ ResetProgress
    \/ LoadSession
    \/ GetSessionStats
    \/ GetResumeInfo
    \/ StoreTick

CacheSpec == StoreInit /\ [][CacheNext]_vars

-----------------------------------------------------------------------------
(* Resuming: the program is started on a progress file left by an earlier  *)
(* run, and _resume_session is called.  A run may be interrupted at any    *)
(* await (KeyboardInterrupt in run.py) and the program started again.  The *)
(* bot has none of the tracks left to process: it answers a request with a *)
(* not-found image, or not at all.                                         *)

(* The ids of a set in the order of the session's dict (playlist order)    *)
RECURSIVE InOrder(_)
InOrder(ids) ==
    IF ids = {} THEN <<>>
    ELSE LET first == CHOOSE id \in ids : \A other \in ids : id <= other
         IN  <<first>> \o InOrder(ids \ {first})

(* Fault for C20: tracks sent to the bot count as still to be processed. *)
needs_processing_or_sent(track) == track.status \in {PENDING, SENT_TO_BOT}

(* get_pending_tracks: get_tracks_by_status(TrackStatus.PENDING) *)
needs_processing(track) == track.status = PENDING

(* Fault for C19: every failed track is retried. *)
retryable_whatever(track) == track.status = FAILED

(* get_retryable_tracks: failed tracks with attempts < max_attempts *)
retryable(track) == track.status = FAILED /\ track.attempts < max_attempts

(* all_processable = pending_tracks + retryable_tracks, cut to the limit *)
all_processable(session, limit) ==
    LET pending_tracks ==
            InOrder({id \in DOMAIN session.tracks : needs_processing(session.tracks[id])})
        retryable_tracks ==
            InOrder({id \in DOMAIN session.tracks : retryable(session.tracks[id])})
        all == pending_tracks \o retryable_tracks
    IN  IF limit > 0 /\ limit < Len(all) THEN SubSeq(all, 1, limit) ELSE all

(* The loop over all_processable: a FAILED track is set back to PENDING    *)
(* with update_track_status(track_id, TrackStatus.PENDING).                *)
RECURSIVE reset_failed(_, _)
reset_failed(session, ids) ==
    IF ids = <<>> THEN session
    ELSE reset_failed(
             IF session.tracks[Head(ids)].status = FAILED
             THEN update_track_status(session, Head(ids), PENDING, Null, Null, 0)
             ELSE session,
             Tail(ids))

(* The resets of a resume, counted per track *)
Resets(session, ids) ==
    [t \in TrackIds |->
        IF t \in Range(ids) /\ session.tracks[t].status = FAILED
        THEN [tally[t] EXCEPT !.resets = @ + 1]
        ELSE tally[t]]

(* What a run can leave of a track in the progress file *)
PersistedTracks ==
    { TrackProgress,
      [TrackProgress EXCEPT !.status = SENT_TO_BOT],
      [TrackProgress EXCEPT !.status = FAILED, !.attempts = 1,
                            !.error_message = "Batch timeout"],
      [TrackProgress EXCEPT !.status = FAILED, !.attempts = max_attempts,
                            !.error_message = "Batch timeout"],
      [TrackProgress EXCEPT !.status = COMPLETED, !.file_path = "path",
                            !.file_size = 1] }

(* The sessions of the playlist <<11, 12>> a resume may find: a run that   *)
(* was interrupted before every track was sent leaves completed_at unset.  *)
PersistedSessions ==
    { [total_tracks |-> 2, tracks |-> tracks,
       completed_at |-> IF \E id \in {11, 12} : tracks[id].status = PENDING
                        THEN Null ELSE "set"] :
        tracks \in [{11, 12} -> PersistedTracks] }

(* The arguments of the resume *)
ResumeArgs ==
    { [batch_size |-> 1, sequential |-> FALSE, limit |-> 0, dry_run |-> FALSE],
      [batch_size |-> 2, sequential |-> TRUE, limit |-> 0, dry_run |-> FALSE],
      [batch_size |-> 2, sequential |-> FALSE, limit |-> 1, dry_run |-> FALSE] }

(* The run a resume makes of a progress file: tracks_to_process is         *)
(* all_processable of the loaded session.                                  *)
ResumeRun(file, args, restarts) ==
    [tracks |-> IF load_session(file) = None THEN <<>>
                ELSE all_processable(load_session(file), args.limit),
     batch_size |-> args.batch_size, sequential |-> args.sequential,
     msg_ids |-> MaxMsgId, limit |-> args.limit, restarts |-> restarts,
     entry |-> "resume", dry_run |-> args.dry_run]

ResumeInit ==
    /\ Fresh
    /\ progress_file \in {session_to_json(session) : session \in PersistedSessions}
    /\ run \in {ResumeRun(progress_file, args, 0) : args \in ResumeArgs}

(* The result of _resume_session when nothing is left to process *)
AlreadyCompleted ==
    [op |-> "resume", req |-> None, via |-> "Session already completed", prior |-> None]

(* _start_new_session or _resume_session returns before _process_tracks,   *)
(* with an error or with the report of _dry_run_report: nothing but the    *)
(* result.                                                                 *)
ReturnEarly(op, result) ==
    /\ pc' = "done"
    /\ last' = [op |-> op, req |-> None, via |-> result, prior |-> None]
    /\ UNCHANGED <<next_msg_id, pending_responses, clicking, downloading, run,
                   idx, attempt, start_time, total_wait_time, match_count,
                   progress_file, temp_file, stats_cache, stats_age, call, tally>>

(* _resume_session up to the first await of _process_tracks: load_session; *)
(* with nothing to process the "Session already completed" result is       *)
(* returned; with dry_run the report; else the failed tracks among the     *)
(* selected ones are reset and saved, and _process_tracks begins with the  *)
(* selected tracks.                                                        *)
ResumeSession ==
    /\ pc = "start"
    /\ run.entry = "resume"
    /\ load_session(progress_file) # None
    /\ LET session == load_session(progress_file)
           tracks_to_process == all_processable(session, run.limit)
       IN  /\ run.tracks = tracks_to_process
           /\ IF tracks_to_process = <<>>
              THEN /\ current_session' = session
                   /\ ReturnEarly("resume", AlreadyCompleted.via)
              ELSE IF run.dry_run
              THEN /\ current_session' = session
                   /\ ReturnEarly("resume", "dry_run")
              ELSE /\ RunOn(process_from(reset_failed(session, tracks_to_process),
                                         pending_responses, 1))
                   /\ progress_file' =
                          IF reset_failed(session, tracks_to_process) = session
                          THEN progress_file
                          ELSE session_to_json(reset_failed(session, tracks_to_process))
                   /\ tally' = Resets(session, tracks_to_process)
                   /\ UNCHANGED <<temp_file, stats_cache, stats_age, call>>

(* Fault for C28: on the way out the tracks of the requests in flight are  *)
(* marked FAILED.                                                          *)
ProcessExitFailsPending ==
    /\ pc' = "closed"
    /\ pending_responses' = <<>>
    /\ clicking' = {}
    /\ downloading' = [t \in TrackIds |-> 0]
    /\ current_session' = None
    /\ idx' = 0
    /\ attempt' = 0
    /\ start_time' = 0
    /\ total_wait_time' = 0
    /\ last' = NoEvent
    /\ match_count' = <<>>
    /\ progress_file' =
           session_to_json(MarkAllFailed(current_session,
                                         [i \in 1..Len(pending_responses) |->
                                             pending_responses[i].track],
                                         "Interrupted"))
    /\ UNCHANGED <<next_msg_id, run, temp_file, stats_cache, stats_age, call, tally>>

(* The process is over: the request map, the handlers in flight and the    *)
(* session in memory are gone; the progress file stays.                    *)
ProcessExit ==
    /\ pc' = "closed"
    /\ pending_responses' = <<>>
    /\ clicking' = {}
    /\ downloading' = [t \in TrackIds |-> 0]
    /\ current_session' = None
    /\ idx' = 0
    /\ attempt' = 0
    /\ start_time' = 0
    /\ total_wait_time' = 0
    /\ last' = NoEvent
    /\ match_count' = <<>>
    /\ UNCHANGED <<next_msg_id, run, progress_file, temp_file, stats_cache,
                   stats_age, call, tally>>

(* KeyboardInterrupt while the run is under way: run.py calls              *)
(* downloader.cleanup(), which disconnects the client, and exits.          *)
Interrupt ==
    /\ pc \notin {"start", "done", "closed"}
    /\ ProcessExit

(* The run has returned: handle_download's finally disconnects the client  *)
(* and the program exits.                                                  *)
Exit ==
    /\ pc = "done"
    /\ ProcessExit

(* The program is started again and _resume_session called on the file    *)
(* the earlier process left.                                               *)
ResumeAgain ==
    /\ pc = "closed"
    /\ run.restarts < MaxRestarts
    /\ run' = ResumeRun(progress_file,
                        [batch_size |-> run.batch_size, sequential |-> run.sequential,
                         limit |-> run.limit, dry_run |-> run.dry_run],
                        run.restarts + 1)
    /\ pc' = "start"
    /\ UNCHANGED <<next_msg_id, pending_responses, clicking, downloading,
                   current_session, idx, attempt, start_time, total_wait_time,
                   last, match_count, progress_file, temp_file, stats_cache,
                   stats_age, call, tally>>

ResumeNext ==
    \/ ResumeSession
    \/ SendOk
    \/ SendRejected
    \/ DelayDone
    \/ TrackWaitDone
    \/ BatchWaitDone
    \/ DrainWake
    \/ BotPhoto
    \/ Tick
    \/ Interrupt
    \/ Exit
    \/ ResumeAgain

ResumeSpec == ResumeInit /\ [][ResumeNext]_vars

(* A first run with every event of the bot, interrupted at any of its      *)
(* suspension points.                                                      *)
InterruptNext ==
    \/ Next
    \/ Interrupt

InterruptSpec == Init /\ [][InterruptNext]_vars

-----------------------------------------------------------------------------
(* The command: _start_new_session with --start-from, --limit and          *)
(* --dry-run on a playlist, the progress file missing or left by an        *)
(* earlier run, and _resume_session with --dry-run.  The bot never         *)
(* answers.                                                                *)

MaxStartFrom == 4       \* --start-from from -1 to MaxStartFrom
MaxLimit == 3           \* --limit from 0 (not given) to MaxLimit

(* Fault for C23: start_from taken as a 0-based index. *)
sliced_zero_based(tracks, start_from, limit) ==
    LET start_index == IF start_from > 0 THEN start_from ELSE 0
        rest == SubSeq(tracks, start_index + 1, Len(tracks))
    IN  IF limit > 0 /\ limit < Len(rest) THEN SubSeq(rest, 1, limit) ELSE rest

(* tracks = tracks[start_index:] with start_index = max(0, start_from - 1) *)
(* and, if limit and limit > 0, tracks = tracks[:limit]                    *)
sliced(tracks, start_from, limit) ==
    LET start_index == IF start_from - 1 > 0 THEN start_from - 1 ELSE 0
        rest == SubSeq(tracks, start_index + 1, Len(tracks))
    IN  IF limit > 0 /\ limit < Len(rest) THEN SubSeq(rest, 1, limit) ELSE rest

(* The runs of the new-session path: what spotify.extract_tracks returns,  *)
(* the arguments, and the user's answer to "Continue?".                    *)
NewRuns ==
    { [playlist |-> playlist, start_from |-> start_from, limit |-> limit,
       dry_run |-> dry_run, confirm |-> confirm,
       tracks |-> sliced(playlist, start_from, limit),
       batch_size |-> 2, sequential |-> sequential, msg_ids |-> MaxMsgId,
       restarts |-> 0, entry |-> "new"] :
        playlist \in {<<>>, <<11, 12, 21>>},
        start_from \in -1..MaxStartFrom,
        limit \in 0..MaxLimit,
        dry_run \in BOOLEAN, confirm \in BOOLEAN, sequential \in BOOLEAN }

EntryInit ==
    /\ Fresh
    /\ \/ /\ run \in NewRuns
          /\ progress_file \in
                 {Absent} \cup
                 {session_to_json(session) : session \in
                     {p \in PersistedSessions : /\ p.tracks[11].status = PENDING
                                                /\ p.tracks[12].status = COMPLETED}}
       \/ /\ progress_file \in {session_to_json(session) : session \in PersistedSessions}
          /\ run \in {ResumeRun(progress_file, [args EXCEPT !.dry_run = TRUE], 0) :
                          args \in ResumeArgs}

(* Fault for C22: the session is started before dry_run is looked at. *)
StartsBeforeDryRun ==
    /\ pc = "start"
    /\ run.entry = "new"
    /\ run.playlist # <<>>
    /\ run.start_from <= Len(run.playlist)
    /\ IF run.dry_run
       THEN /\ current_session' = start_session(run.tracks)
            /\ progress_file' = session_to_json(start_session(run.tracks))
            /\ pc' = "done"
            /\ last' = [op |-> "start", req |-> None, via |-> "dry_run", prior |-> None]
            /\ UNCHANGED <<next_msg_id, pending_responses, clicking, downloading,
                           run, idx, attempt, start_time, total_wait_time,
                           match_count, temp_file, stats_cache, stats_age, call,
                           tally>>
       ELSE RunTo(process_from(start_session(run.tracks), pending_responses, 1))

(* _start_new_session up to the first await of _process_tracks: the errors *)
(* for an empty track list and for a start position beyond the list, the   *)
(* slicing, the dry-run report, the confirmation, then start_session and   *)
(* _process_tracks.                                                        *)
StartNewSession ==
    /\ pc = "start"
    /\ run.entry = "new"
    /\ LET tracks == run.playlist
           start_index == IF run.start_from - 1 > 0 THEN run.start_from - 1 ELSE 0
           error(message) == /\ ReturnEarly("start", message)
                             /\ UNCHANGED current_session
       IN  IF tracks = <<>>
           THEN error("No tracks found in playlist")
           ELSE IF start_index >= Len(tracks)
           THEN error("Start position is beyond playlist length")
           ELSE IF run.dry_run
           THEN error("dry_run")
           ELSE IF ~run.confirm
           THEN error("Download cancelled by user")
           ELSE /\ run.tracks = sliced(tracks, run.start_from, run.limit)
                /\ RunTo(process_from(start_session(run.tracks), pending_responses, 1))

EntryNext ==
    \/ StartNewSession
    \/ ResumeSession
    \/ SendOk
    \/ DelayDone
    \/ TrackWaitDone
    \/ BatchWaitDone
    \/ DrainWake
    \/ Tick

EntrySpec == EntryInit /\ [][EntryNext]_vars

-----------------------------------------------------------------------------
(* Flood control: send_message raises FloodWaitError(seconds) and          *)
(* _handle_flood_wait sleeps before the next attempt of send_track_to_bot. *)
(* Time is counted in half seconds, so that seconds * 1.5 is a whole       *)
(* number: wait_time is 3 * seconds half seconds.  A sleep is taken to     *)
(* last as long as asked, the least asyncio.sleep guarantees.              *)

MaxFloodSeconds == 12   \* FloodWaitError.seconds from 0 to MaxFloodSeconds

FloodInit ==
    /\ Fresh
    /\ progress_file = Absent
    /\ run \in {[seconds |-> seconds] : seconds \in 0..MaxFloodSeconds}

(* except FloodWaitError as e: _handle_flood_wait(e) up to its first       *)
(* sleep.  wait_time = e.seconds * flood_wait_multiplier; above 10 seconds *)
(* the loop `for _ in range(int(wait_time))` sleeps one second each time,  *)
(* else one sleep of wait_time.  idx holds the seconds asked of the sleeps *)
(* still to come, in half seconds; total_wait_time the time slept.         *)
FloodSignal ==
    /\ pc \in {"start", "sending"}
    /\ attempt < max_retries
    /\ LET wait_time == 3 * run.seconds
       IN  idx' = IF wait_time > 2 * 10 THEN 2 * (wait_time \div 2) ELSE wait_time
    /\ pc' = "flood_wait"
    /\ total_wait_time' = 0
    /\ UNCHANGED <<next_msg_id, pending_responses, clicking, downloading,
                   current_session, run, attempt, start_time, last, match_count,
                   progress_file, temp_file, stats_cache, stats_age, call, tally>>

(* A sleep of _handle_flood_wait is over: one second of the loop, or the   *)
(* whole wait; after the last one `continue` starts the next attempt, or   *)
(* ends the loop after max_retries attempts.                               *)
FloodSleep ==
    /\ pc = "flood_wait"
    /\ LET slept == IF 3 * run.seconds > 2 * 10 THEN 2 ELSE idx
       IN  /\ total_wait_time' = total_wait_time + slept
           /\ idx' = idx - slept
           /\ IF idx - slept > 0
              THEN UNCHANGED <<pc, attempt>>
              ELSE /\ attempt' = attempt + 1
                   /\ pc' = IF attempt + 1 < max_retries THEN "sending" ELSE "done"
    /\ UNCHANGED <<next_msg_id, pending_responses, clicking, downloading,
                   current_session, run, start_time, last, match_count,
                   progress_file, temp_file, stats_cache, stats_age, call, tally>>

FloodNext ==
    \/ FloodSignal
    \/ FloodSleep

FloodSpec == FloodInit /\ [][FloodNext]_vars

-----------------------------------------------------------------------------
(* The dispatch of _handle_bot_response: a message of the bot as the tests *)
(* of the handler see it, any of a document, buttons, a photo and text.    *)

Messages == [document : BOOLEAN, buttons : BOOLEAN, photo : BOOLEAN, text : BOOLEAN]

(* Fault for C39: the buttons are tested before the document. *)
handler_buttons_first(msg) ==
    IF msg.buttons THEN "buttons"
    ELSE IF msg.document THEN "file"
    ELSE IF msg.photo THEN "photo"
    ELSE IF msg.text THEN "text"
    ELSE "none"

(* if event.message.document ... elif buttons ... elif photo ... elif text, *)
(* and no handler for a message with none of them.                         *)
handler_of(msg) ==
    IF msg.document THEN "file"
    ELSE IF msg.buttons THEN "buttons"
    ELSE IF msg.photo THEN "photo"
    ELSE IF msg.text THEN "text"
    ELSE "none"

(* _handle_bot_response: the purge, then the handler chosen.  The text     *)
(* branch prints the text; a message of no kind gets the purge only.       *)
BotMessage(msg) ==
    \/ handler_of(msg) = "file" /\ BotFile
    \/ handler_of(msg) = "buttons" /\ BotButtons
    \/ handler_of(msg) = "photo" /\ BotPhoto
    \/ handler_of(msg) \in {"text", "none"} /\ BotText

MessageInit ==
    InitOf({[tracks |-> <<11, 12>>, batch_size |-> 2, sequential |-> FALSE,
             msg_ids |-> MaxMsgId, limit |-> 0, restarts |-> 0]})

MessageNext ==
    \/ StartSession
    \/ SendOk
    \/ DelayDone
    \/ \E msg \in Messages : BotMessage(msg)
    \/ \E c \in clicking : ClickDone(c)
    \/ Tick

MessageSpec == MessageInit /\ [][MessageNext]_vars

-----------------------------------------------------------------------------
(* The FIFO-only client, TelethonSpotifyDownloader, run beside the          *)
(* heuristic one: the same sends at the same times, the same file events.  *)
(* `run` holds its pending_responses, a dict keyed by message id.          *)

(* Fault for C40: the first request of the dict is taken, expired or not. *)
first_request(p, t) ==
    IF p = <<>> THEN [req |-> None, pending |-> p]
    ELSE [req |-> p[1], pending |-> Tail(p)]

(* The handler of monitor_bot_responses for a document: the first request  *)
(* in the dict's order with sent_at > cutoff_time is deleted and matched;  *)
(* expired requests stay in the dict.                                      *)
monitor_bot_responses(p, t) ==
    LET cutoff_time == t - response_timeout
        valid == {i \in 1..Len(p) : p[i].sent_at > cutoff_time}
    IN  IF valid = {} THEN [req |-> None, pending |-> p]
        ELSE LET first == CHOOSE i \in valid : \A j \in valid : i <= j
             IN  [req |-> p[first], pending |-> RemoveAt(p, first)]

CompareFrame ==
    UNCHANGED <<clicking, downloading, current_session, pc, idx, attempt,
                start_time, total_wait_time, match_count, progress_file,
                temp_file, stats_cache, stats_age, call, tally>>

CompareInit ==
    /\ Fresh
    /\ progress_file = Absent
    /\ run = [pending_responses |-> <<>>]

(* send_track_to_bot of both clients: the message is sent and the request  *)
(* registered with sent_at = datetime.now().                               *)
CompareSend ==
    \E track \in TrackIds :
        /\ next_msg_id <= MaxMsgId
        /\ pending_responses' =
               Put(pending_responses, PendingRequest(track, now, next_msg_id))
        /\ run' = [run EXCEPT !.pending_responses =
                       Append(@, [message_id |-> next_msg_id, track |-> track,
                                  sent_at |-> now])]
        /\ next_msg_id' = next_msg_id + 1
        /\ last' = NoEvent
        /\ CompareFrame

(* A file event that no pending request matches with a score of            *)
(* confidence_threshold or more, handled by both clients.                  *)
CompareFile ==
    \E doc \in Documents(PendingTracks(cleanup_expired_requests(pending_responses, now))) :
        LET m == file_match(doc)
            live == cleanup_expired_requests(pending_responses, now)
            simple == monitor_bot_responses(run.pending_responses, now)
        IN  /\ \A i \in 1..Len(live) :
                   ~Confident(calculate_track_similarity(doc, live[i].track))
            /\ pending_responses' =
                   IF m.req = None THEN cleanup_orphaned_requests(m.pending)
                   ELSE m.pending
            /\ run' = [run EXCEPT !.pending_responses = simple.pending]
            /\ last' = [op |-> "compared", req |-> m.req, via |-> m.via,
                        prior |-> None, fifo_only |-> simple.req]
            /\ UNCHANGED next_msg_id
            /\ CompareFrame

(* Time passes for both clients. *)
CompareTick ==
    /\ pending_responses' =
           [i \in 1..Len(pending_responses) |->
               [pending_responses[i] EXCEPT !.sent_at = Older(@, response_timeout)]]
    /\ run' = [run EXCEPT !.pending_responses =
                   [i \in 1..Len(@) |->
                       [@[i] EXCEPT !.sent_at = Older(@, response_timeout)]]]
    /\ last' = NoEvent
    /\ UNCHANGED next_msg_id
    /\ CompareFrame

CompareNext == CompareSend \/ CompareFile \/ CompareTick

CompareSpec == CompareInit /\ [][CompareNext]_vars

-----------------------------------------------------------------------------
(* A batch larger than the valve's cap, the bot answering with files       *)
(* (the events whose handler calls the valve) while the requests are       *)
(* within the response timeout.                                            *)

ValveInit == InitOf({ValveRun})

ValveNext ==
    \/ StartSession
    \/ SendOk
    \/ DelayDone
    \/ BotFile

ValveSpec == ValveInit /\ [][ValveNext]_vars

-----------------------------------------------------------------------------
(* Properties of the correlation engine, the tracker and the orchestrator. *)

(* The keys of the requests in the map *)
PendingKeys == {pending_responses[i].key : i \in 1..Len(pending_responses)}

(* The last step was a match call that returned a request. *)
Matched == last.op \in {"file", "buttons", "photo"}

(* C1: a stored request is returned by at most one match call: no request   *)
(* key has been returned twice, and the request a match call has just      *)
(* returned is no longer in the pending map.                               *)
C1_AtMostOneMatch ==
    /\ \A k \in DOMAIN match_count : match_count[k] <= 1
    /\ Matched => last.req.key \notin PendingKeys

(* C1 happens: a second match call has returned a request, another one is  *)
(* still pending.                                                          *)
C1_Witness ==
    /\ Matched
    /\ Cardinality(DOMAIN match_count) >= 2
    /\ Len(pending_responses) >= 1

(* The edges of the session state machine: PENDING -> SENT_TO_BOT ->       *)
(* DOWNLOADING -> COMPLETED, FAILED from a non-terminal state, and the     *)
(* retry FAILED -> PENDING.                                                *)
StateMachineEdges ==
    { <<PENDING, SENT_TO_BOT>>, <<SENT_TO_BOT, DOWNLOADING>>,
      <<DOWNLOADING, COMPLETED>>, <<PENDING, FAILED>>, <<SENT_TO_BOT, FAILED>>,
      <<DOWNLOADING, FAILED>>, <<FAILED, PENDING>> }

(* C2: every status change of a track follows an edge of the state         *)
(* machine; a COMPLETED track never changes, a FAILED one only to PENDING. *)
C2_StatusFollowsEdges ==
    [][(current_session # None /\ current_session' # None) =>
          \A id \in DOMAIN current_session.tracks :
              \/ current_session'.tracks[id].status = current_session.tracks[id].status
              \/ << current_session.tracks[id].status,
                    current_session'.tracks[id].status >> \in StateMachineEdges]_vars

(* The sum of the per-status counts of get_session_stats *)
RECURSIVE SumOfCounts(_, _)
SumOfCounts(session, statuses) ==
    IF statuses = {} THEN 0
    ELSE LET status == CHOOSE x \in statuses : TRUE
         IN  StatusCount(session, status) + SumOfCounts(session, statuses \ {status})

(* C3: the per-status counts sum to total_tracks in every state of a       *)
(* session, whatever track list start_session was given.                   *)
C3_CountsSumToTotal ==
    current_session # None =>
        SumOfCounts(current_session, TrackStatus) = current_session.total_tracks

(* The tracks that occur in the last batch only *)
LastBatchOnly ==
    LET last_start == ((total_tracks - 1) \div run.batch_size) * run.batch_size
    IN  {run.tracks[j] : j \in (last_start + 1)..total_tracks}
            \ {run.tracks[j] : j \in 1..last_start}

(* C4: in batched mode a track of any batch, the last one included, that   *)
(* its batch's timeout finds not terminal is marked FAILED: once the run   *)
(* is over, no track of the last batch is left PENDING, SENT_TO_BOT or     *)
(* DOWNLOADING.                                                            *)
C4_EveryBatchForced ==
    (~run.sequential /\ pc = "closed") =>
        \A id \in LastBatchOnly :
            current_session.tracks[id].status \notin {PENDING, SENT_TO_BOT, DOWNLOADING}

(* The batch (0-based) of global_index j, and its tracks *)
BatchOf(j) == (j - 1) \div run.batch_size

BatchTracks(b) ==
    {run.tracks[j] : j \in {i \in 1..total_tracks : BatchOf(i) = b}}

(* C5: in batched mode the wait for a batch ends only with every track of  *)
(* the batch COMPLETED or FAILED or with the batch timeout over; a send of *)
(* a later batch begins only from that wait or with every track of the    *)
(* batch terminal; and the orchestrator waits nowhere but at the end of a  *)
(* batch, so the sends of a batch do not wait for responses.               *)
C5_BatchBarrier ==
    [][~run.sequential =>
          /\ (pc = "wait_batch" /\ pc' # "wait_batch") =>
                 \/ now - start_time >= BatchTimeout
                 \/ \A id \in BatchTracks(BatchOf(idx)) :
                        current_session.tracks[id].status \in {COMPLETED, FAILED}
          /\ (pc' = "sending" /\ idx >= 1 /\ BatchOf(idx') > BatchOf(idx)) =>
                 \/ pc = "wait_batch"
                 \/ \A id \in BatchTracks(BatchOf(idx)) :
                        current_session'.tracks[id].status \in {COMPLETED, FAILED}
          /\ (pc' = "wait_batch" /\ pc # "wait_batch") =>
                 idx' % run.batch_size = 0 /\ idx' < total_tracks
          /\ pc' # "wait_track"]_vars

(* C5 happens: the third track is being sent after the first batch ended   *)
(* with one track COMPLETED and one FAILED.                                *)
C5_Witness ==
    /\ ~run.sequential
    /\ run.batch_size = 2
    /\ pc = "sending"
    /\ idx = 3
    /\ current_session.tracks[11].status = COMPLETED
    /\ current_session.tracks[12].status = FAILED

(* C6: in sequential mode every send is followed by the wait for its       *)
(* track; the wait ends only with the track COMPLETED or FAILED or with    *)
(* the per-track timeout over; and the next send begins only from that     *)
(* wait or when the send itself has failed, over completed tracks only.    *)
C6_SequentialOrder ==
    [][run.sequential =>
          /\ pc = "delay" => (pc' \in {"delay", "wait_track"} /\ idx' = idx)
          /\ (pc = "wait_track" /\ pc' # "wait_track") =>
                 \/ now - start_time >= TrackTimeout
                 \/ current_session.tracks[track_at].status \in {COMPLETED, FAILED}
          /\ (pc' = "sending" /\ idx >= 1 /\ idx' > idx) =>
                 /\ \/ pc = "wait_track"
                    \/ current_session'.tracks[track_at].status = FAILED
                 /\ \A j \in (idx + 1)..(idx' - 1) :
                        current_session'.tracks[run.tracks[j]].status = COMPLETED
          /\ pc' # "wait_batch"]_vars

(* C6 happens: the second track is being sent after the wait for the first *)
(* one timed out with the track still at SENT_TO_BOT.                      *)
C6_Witness ==
    /\ run.sequential
    /\ pc = "sending"
    /\ idx = 2
    /\ current_session.tracks[11].status = SENT_TO_BOT

(* The requests of the map whose age has not reached the response timeout, *)
(* in the map's order.                                                     *)
Unexpired == SelectSeq(pending_responses, LAMBDA r : now - r.sent_at < response_timeout)

(* The documents a file event may carry in the current state *)
FileEvents == Documents(PendingTracks(Unexpired))

(* The scores of the unexpired requests for a document *)
Scores(doc) ==
    [i \in 1..Len(Unexpired) |-> calculate_track_similarity(doc, Unexpired[i].track)]

(* Some unexpired request scores 70 or more. *)
ClearsThreshold(doc) == \E i \in 1..Len(Unexpired) : Scores(doc)[i] >= 70 * 1000

(* C7: in every state, for every file event that may arrive: if the        *)
(* highest score among the unexpired requests is 70 or more, the match     *)
(* call of the file handler returns a request with that highest score, by  *)
(* the similarity path, and leaves it out of the map; the similarity path  *)
(* returns no request that scores below 70.                                *)
C7_HighestScoreSelected ==
    \A doc \in FileEvents :
        LET m == file_match(doc)
        IN  /\ ClearsThreshold(doc) =>
                   /\ m.req # None
                   /\ m.via = "smart"
                   /\ \E i \in 1..Len(Unexpired) :
                          /\ Unexpired[i] = m.req
                          /\ \A j \in 1..Len(Unexpired) :
                                 Scores(doc)[j] <= Scores(doc)[i]
                   /\ \A i \in 1..Len(m.pending) : m.pending[i].key # m.req.key
            /\ m.via = "smart" =>
                   /\ m.req # None
                   /\ calculate_track_similarity(doc, m.req.track) >= 70 * 1000

(* C7 happens: a file event was matched by similarity while an older       *)
(* request stays pending.                                                  *)
C7_Witness ==
    /\ last.op = "file"
    /\ last.via = "smart"
    /\ \E i \in 1..Len(pending_responses) :
           pending_responses[i].sent_at < last.req.sent_at

(* The FIFO rule for the match m: the request with the smallest sent_at    *)
(* among the unexpired ones, nothing when there is none.                   *)
FifoOutcome(m) ==
    IF Unexpired = <<>>
    THEN m.req = None
    ELSE /\ m.req # None
         /\ m.via = "fifo"
         /\ \E i \in 1..Len(Unexpired) :
                /\ Unexpired[i] = m.req
                /\ \A j \in 1..Len(Unexpired) :
                       Unexpired[i].sent_at <= Unexpired[j].sent_at

(* C8: in every state, the match call of a file event for which no         *)
(* unexpired request scores 70, and the match call of every button-prompt  *)
(* and not-found event, returns the request with the smallest sent_at      *)
(* among the unexpired requests, or nothing if there is no such request.   *)
C8_FifoSelectsOldest ==
    /\ \A doc \in FileEvents : ~ClearsThreshold(doc) => FifoOutcome(file_match(doc))
    /\ FifoOutcome(fifo_match)

(* C8 happens: a file event was matched by the FIFO rule while a younger   *)
(* request stays pending.                                                  *)
C8_Witness ==
    /\ last.op = "file"
    /\ last.via = "fifo"
    /\ \E i \in 1..Len(pending_responses) :
           pending_responses[i].sent_at > last.req.sent_at

(* C9: a request a match call returns was in the map with an age below the *)
(* response timeout; after the handling of any bot event the map holds     *)
(* exactly the requests that were unexpired, in their order, without the   *)
(* one returned; and the drain's pending count leaves exactly the          *)
(* unexpired requests.                                                     *)
C9_NoExpiredReturned ==
    [][/\ last'.op \in {"file", "buttons", "photo"} =>
              /\ now - last'.req.sent_at < response_timeout
              /\ \E i \in 1..Len(pending_responses) : pending_responses[i] = last'.req
       /\ (BotFile \/ BotButtons \/ BotPhoto \/ BotText) =>
              pending_responses' =
                  SelectSeq(Unexpired, LAMBDA r : last'.req = None \/ r # last'.req)
       /\ (pc' = "drain_sleep" /\ (pc # "drain_sleep" \/ total_wait_time' # total_wait_time))
              => pending_responses' = Unexpired]_vars

(* C9 happens: of two requests sent, none matched, one has been purged and *)
(* the other is still pending.                                             *)
C9_Witness ==
    /\ next_msg_id = 3
    /\ match_count = <<>>
    /\ clicking = {}
    /\ Len(pending_responses) = 1

(* C10: a matched button prompt removes the matched request and inserts    *)
(* nothing until the click returns; then exactly one request for the same  *)
(* track is added, under another key, with sent_at the time of the         *)
(* registration; when the click fails the map is left alone and the track  *)
(* is marked FAILED.                                                       *)
C10_ButtonReregisters ==
    [][/\ last'.op = "buttons" =>
              pending_responses' = SelectSeq(Unexpired, LAMBDA r : r # last'.req)
       /\ last'.op = "clicked" =>
              /\ pending_responses' = Append(pending_responses, last'.req)
              /\ last'.req.track = last'.prior.track
              /\ last'.req.key # last'.prior.key
              /\ last'.req.key \notin PendingKeys
              /\ last'.req.sent_at = now
              /\ \E c \in clicking : c.matched_request = last'.prior
              /\ Cardinality(clicking') = Cardinality(clicking) - 1
       /\ \A c \in clicking : ClickFailed(c) =>
              /\ pending_responses' = pending_responses
              /\ current_session'.tracks[c.matched_request.track].status = FAILED]_vars

(* C10 happens: the click has returned for a prompt matched to a request   *)
(* sent earlier, and the new request is in the map.                        *)
C10_Witness ==
    /\ last.op = "clicked"
    /\ last.prior.sent_at < last.req.sent_at
    /\ \E i \in 1..Len(pending_responses) : pending_responses[i] = last.req

(* C11: a not-found event that is matched is matched to the request with   *)
(* the smallest sent_at among the unexpired ones; the step removes that    *)
(* request, marks its track FAILED with the cause "Track not found by bot" *)
(* and one more attempt, and registers nothing: the map is left with the   *)
(* other unexpired requests, no click is begun, no message id is taken.    *)
C11_NotFoundFailsOldest ==
    [][last'.op = "photo" =>
          /\ \E i \in 1..Len(Unexpired) :
                 /\ Unexpired[i] = last'.req
                 /\ \A j \in 1..Len(Unexpired) :
                        Unexpired[i].sent_at <= Unexpired[j].sent_at
          /\ pending_responses' = SelectSeq(Unexpired, LAMBDA r : r # last'.req)
          /\ current_session'.tracks[last'.req.track].status = FAILED
          /\ current_session'.tracks[last'.req.track].error_message =
                 "Track not found by bot"
          /\ current_session'.tracks[last'.req.track].attempts =
                 current_session.tracks[last'.req.track].attempts + 1
          /\ \A t \in DOMAIN current_session.tracks \ {last'.req.track} :
                 current_session'.tracks[t] = current_session.tracks[t]
          /\ clicking' = clicking
          /\ next_msg_id' = next_msg_id]_vars

(* C11 happens: a not-found event was matched to the oldest request while  *)
(* a younger one stays pending, and the track is FAILED with that cause.   *)
C11_Witness ==
    /\ last.op = "photo"
    /\ \E i \in 1..Len(pending_responses) :
           pending_responses[i].sent_at > last.req.sent_at
    /\ current_session.tracks[last.req.track].status = FAILED
    /\ current_session.tracks[last.req.track].error_message = "Track not found by bot"

(* An inbound event that matched no request: the handler of a file, a      *)
(* button prompt or a not-found image ran and its match call returned None. *)
UnmatchedEvent == last'.op = "unmatched"

(* C12: a step that handles a file, button-prompt or not-found event which *)
(* matches no request leaves every TrackProgress and the progress file as  *)
(* they are, and the handler is over with the step: it begins no click and *)
(* no download and does not touch the orchestrator.                        *)
C12_UnmatchedEventIgnored ==
    [][UnmatchedEvent =>
          /\ current_session' = current_session
          /\ progress_file' = progress_file
          /\ clicking' = clicking
          /\ downloading' = downloading
          /\ pc' = pc]_vars

(* C12 happens: an event went unmatched while a track of the session is at *)
(* SENT_TO_BOT (its request has expired), and the orchestrator is still    *)
(* waiting for the batch.                                                  *)
C12_Witness ==
    /\ last.op = "unmatched"
    /\ current_session # None
    /\ \E t \in DOMAIN current_session.tracks :
           current_session.tracks[t].status = SENT_TO_BOT
    /\ pc = "wait_batch"

(* C13: after the handling of any inbound event the map holds at most      *)
(* OrphanCap requests.                                                     *)
C13_PendingWithinCap ==
    last.op \in {"file", "buttons", "photo", "unmatched"} =>
        Len(pending_responses) <= OrphanCap

(* The calls of the tracker that change the session and save it *)
MutatingCalls ==
    {"start_session", "mark_track_sent", "mark_track_downloading",
     "mark_track_completed", "mark_track_failed", "mark_track_skipped",
     "complete_session"}

(* C14: once a mutating call of the tracker has returned, the progress     *)
(* file decodes to exactly the session in memory; and while a write is     *)
(* under way the file is never a partial document: it is absent (nothing   *)
(* was saved yet) or decodes to a session.                                 *)
C14_FileHoldsSession ==
    /\ (call.name \in MutatingCalls /\ call.at = "returned") =>
           load_session(progress_file) = current_session
    /\ call.at # "returned" =>
           (progress_file = Absent \/ load_session(progress_file) # None)

C16_FailedWriteNotAbsorbed ==
    ~(call.name = "start_session" /\ call.at = "returned" /\ call.write = "failed")

(* C17: what get_session_stats has returned since the last call that       *)
(* changed the session (a mutating call or reset_progress) is the stats of *)
(* the session as it is: {} without a session, else the counts computed    *)
(* from the current statuses.                                              *)
C17_StatsAreCurrent ==
    (/\ call.name \in MutatingCalls \cup {"reset_progress"}
     /\ call.at = "returned"
     /\ call.stats # None) =>
        call.stats = IF current_session = None THEN EmptyStats
                     ELSE session_stats(current_session)

(* C18: over the runs and resumes of one session a track is sent to the    *)
(* bot at most max_attempts times, and every send of a track after its     *)
(* first follows a reset of the track from FAILED to PENDING: the sends of *)
(* a track never exceed its resets by more than one.                       *)
C18_DispatchBounded ==
    \A t \in TrackIds :
        /\ tally[t].sends <= max_attempts
        /\ tally[t].sends <= 1 + tally[t].resets

(* The step of a resume that has tracks to process *)
ResumeSelects == pc = "start" /\ pc' = "sending"

(* C19 as stated: a resume selects every PENDING and every FAILED track of *)
(* the persisted session and sets each FAILED one back to PENDING.         *)
C19_EveryFailedSelected ==
    [][ResumeSelects =>
        LET session == load_session(progress_file)
        IN  /\ Range(run.tracks) =
                   {id \in DOMAIN session.tracks :
                        session.tracks[id].status \in {PENDING, FAILED}}
            /\ \A id \in DOMAIN session.tracks :
                   session.tracks[id].status = FAILED =>
                       current_session'.tracks[id].status = PENDING]_vars

(* C19: a resume selects the PENDING tracks and the FAILED tracks with     *)
(* fewer than max_attempts attempts, pending ones first and no more than   *)
(* the limit when one is given; each selected track is PENDING afterwards  *)
(* with its other fields as persisted, every other track is as persisted,  *)
(* the file holds the session, and the dispatch starts at the first        *)
(* selected track as in a fresh run.                                       *)
C19_ResumeSelection ==
    [][ResumeSelects =>
        LET session == load_session(progress_file)
            pending == {id \in DOMAIN session.tracks :
                            session.tracks[id].status = PENDING}
            failed  == {id \in DOMAIN session.tracks :
                            /\ session.tracks[id].status = FAILED
                            /\ session.tracks[id].attempts < max_attempts}
            selected == Range(run.tracks)
        IN  /\ selected \subseteq pending \cup failed
            /\ Len(run.tracks) = Cardinality(selected)
            /\ Len(run.tracks) =
                   IF run.limit > 0 /\ run.limit < Cardinality(pending \cup failed)
                   THEN run.limit ELSE Cardinality(pending \cup failed)
            /\ \A i, j \in 1..Len(run.tracks) :
                   run.tracks[i] \in failed /\ run.tracks[j] \in pending => j < i
            /\ pending \subseteq selected \/ selected \subseteq pending
            /\ \A id \in selected :
                   current_session'.tracks[id] =
                       [session.tracks[id] EXCEPT !.status = PENDING]
            /\ \A id \in DOMAIN session.tracks \ selected :
                   current_session'.tracks[id] = session.tracks[id]
            /\ load_session(progress_file') = current_session'
            /\ idx' = 1
            /\ run' = run
            /\ pending_responses' = pending_responses]_vars

(* A resume has reset a failed track with one attempt and left a failed    *)
(* track with max_attempts attempts as it was.                             *)
C19_Witness ==
    /\ pc = "sending"
    /\ idx = 1
    /\ run.restarts = 0
    /\ run.tracks = <<11>>
    /\ tally[11] = [sends |-> 0, resets |-> 1]
    /\ current_session.tracks[11].status = PENDING
    /\ current_session.tracks[11].attempts = 1
    /\ current_session.tracks[12].status = FAILED
    /\ current_session.tracks[12].attempts = max_attempts

(* The persisted session has no PENDING and no FAILED track *)
NothingToResume ==
    /\ load_session(progress_file) # None
    /\ \A id \in DOMAIN load_session(progress_file).tracks :
           load_session(progress_file).tracks[id].status \notin {PENDING, FAILED}

(* C20: _resume_session on a persisted session with no PENDING and no      *)
(* FAILED track returns the "Session already completed" result, sends no   *)
(* message and registers no request, and leaves the progress file and      *)
(* every TrackProgress as persisted; as nothing has changed, a second call *)
(* does the same.                                                          *)
C20_CompletedResumeIsNoOp ==
    [][(pc = "start" /\ pc' # "start" /\ NothingToResume) =>
        /\ pc' = "done"
        /\ last' = AlreadyCompleted
        /\ progress_file' = progress_file
        /\ current_session' = load_session(progress_file)
        /\ next_msg_id' = next_msg_id
        /\ pending_responses' = pending_responses
        /\ tally' = tally]_vars

(* The second resume of a session with a track left as sent to the bot and *)
(* a completed one has returned "already completed"; nothing was sent.     *)
C20_Witness ==
    /\ run.restarts = 1
    /\ pc = "done"
    /\ last = AlreadyCompleted
    /\ NothingToResume
    /\ current_session = load_session(progress_file)
    /\ current_session.tracks[11].status = SENT_TO_BOT
    /\ current_session.tracks[12].status = COMPLETED
    /\ \A t \in TrackIds : tally[t] = [sends |-> 0, resets |-> 0]
    /\ pending_responses = <<>>

(* C21: get_resume_info returns nothing when the progress file holds no    *)
(* session or when every track of the persisted session is COMPLETED,      *)
(* FAILED or SKIPPED; otherwise it returns the pending, failed and         *)
(* completed counts of the persisted session and can_resume = (pending > 0 *)
(* or failed > 0).                                                         *)
C21_ResumeInfoOfPersisted ==
    call.name = "get_resume_info" =>
        LET session == load_session(progress_file)
            count(status) ==
                Cardinality({id \in DOMAIN session.tracks :
                                 session.tracks[id].status = status})
        IN  IF session = None THEN call.info = None
            ELSE IF \A id \in DOMAIN session.tracks :
                        session.tracks[id].status \in {COMPLETED, FAILED, SKIPPED}
            THEN call.info = None
            ELSE /\ call.info # None
                 /\ call.info.pending_count = count(PENDING)
                 /\ call.info.failed_count = count(FAILED)
                 /\ call.info.completed_count = count(COMPLETED)
                 /\ call.info.can_resume = (count(PENDING) > 0 \/ count(FAILED) > 0)

(* C22: in a dry run, on the new-session path and on the resume path, no   *)
(* step sends a message, registers a request, changes the status of a      *)
(* track or writes the progress file: the session in memory is none or the *)
(* one loaded from the file, and the run returns from its first step.      *)
C22_DryRunChangesNothing ==
    [][run.dry_run =>
        /\ next_msg_id' = next_msg_id
        /\ pending_responses' = pending_responses
        /\ tally' = tally
        /\ progress_file' = progress_file
        /\ current_session' \in {None, load_session(progress_file)}
        /\ pc' \in {"start", "done"}]_vars

(* A dry run of a resume has returned its report: the failed track it      *)
(* lists is still FAILED, in memory and in the file.                       *)
C22_Witness ==
    /\ run.dry_run
    /\ run.entry = "resume"
    /\ pc = "done"
    /\ last.via = "dry_run"
    /\ run.tracks = <<12, 11>>
    /\ current_session = load_session(progress_file)
    /\ current_session.tracks[11].status = FAILED
    /\ current_session.tracks[12].status = PENDING
    /\ next_msg_id = 1

(* The step that starts a new session *)
SessionStarts ==
    /\ run.entry = "new"
    /\ pc = "start"
    /\ current_session' # None

PassedOver ==
    {j \in 1..Len(run.tracks) :
        /\ idx < j
        /\ j < idx' \/ (j = idx' /\ pc' # "sending")}

(* C25: when the loop reaches a track whose status is COMPLETED it goes    *)
(* past it: no message is sent and no request registered in the step, the  *)
(* track keeps its status and its recorded file (and so counts as          *)
(* completed in the stats); the loop is suspended in a send only on a      *)
(* track that is not COMPLETED, and goes past no other track.              *)
C25_CompletedTrackSkipped ==
    [][/\ \A j \in PassedOver :
              /\ current_session.tracks[run.tracks[j]].status = COMPLETED
              /\ current_session'.tracks[run.tracks[j]] =
                     current_session.tracks[run.tracks[j]]
       /\ PassedOver # {} =>
              /\ next_msg_id' = next_msg_id
              /\ tally' = tally
              /\ \A k \in 1..Len(pending_responses') :
                     \E i \in 1..Len(pending_responses) :
                         pending_responses'[k] = pending_responses[i]
       /\ (pc' = "sending" /\ (pc # "sending" \/ idx' # idx)) =>
              current_session'.tracks[run.tracks[idx']].status # COMPLETED]_vars

(* The second entry of the list <<11, 11>> was reached after the first had *)
(* been completed: one message was sent for the two entries.               *)
C25_Witness ==
    /\ run.tracks = <<11, 11>>
    /\ idx = 3
    /\ tally[11].sends = 1
    /\ next_msg_id = 2
    /\ current_session.tracks[11].status = COMPLETED
    /\ current_session.tracks[11].file_path # Null

(* The last send attempt of a dispatch is rejected *)
SendGivenUp ==
    /\ pc = "sending"
    /\ attempt = max_retries - 1
    /\ next_msg_id' = next_msg_id
    /\ pc' # "sending" \/ idx' # idx

C27_FloodWaitIsFull ==
    (pc \in {"sending", "done"} /\ attempt > 0) => total_wait_time >= 3 * run.seconds

(* C28: an interrupt of the run at any suspension point (a send or the     *)
(* wait between two attempts, the delay after a send, the wait for a track *)
(* or a batch, the final drain, with or without downloads and clicks in    *)
(* flight) leaves the progress file as it was, which is the dump of the    *)
(* session as the last tracker call left it: no status is changed, no      *)
(* track marked FAILED; the requests in flight are dropped.                *)
C28_InterruptKeepsProgress ==
    [][(pc \notin {"done", "closed"} /\ pc' = "closed") =>
        /\ progress_file' = progress_file
        /\ load_session(progress_file') = current_session
        /\ pending_responses' = <<>>
        /\ clicking' = {}
        /\ \A t \in TrackIds : downloading'[t] = 0
        /\ tally' = tally]_vars

(* The run was interrupted while the file of track 11 was being downloaded *)
(* and the request of track 12 was in flight: the file holds the two       *)
(* tracks as DOWNLOADING and SENT_TO_BOT.                                  *)
C28_Witness ==
    /\ pc = "closed"
    /\ run.tracks = <<11, 12, 21>>
    /\ current_session = None
    /\ pending_responses = <<>>
    /\ load_session(progress_file) # None
    /\ load_session(progress_file).tracks[11].status = DOWNLOADING
    /\ load_session(progress_file).tracks[12].status = SENT_TO_BOT
    /\ load_session(progress_file).tracks[21].status = PENDING
    /\ next_msg_id = 3

(* C29: every run comes to its end with the session marked completed,     *)
(* whatever the bot sends or fails to send; on the way a dispatch never    *)
(* has max_retries rejected attempts behind it and goes on, the drain      *)
(* never sleeps more often than its limit allows, and a wake-up of the     *)
(* drain that finds no live request and every track COMPLETED or FAILED    *)
(* ends the run.                                                           *)
C29_RunTerminates ==
    /\ <>(/\ pc \in {"done", "closed"}
          /\ current_session # None
          /\ current_session.completed_at # Null)
    /\ [](attempt < max_retries /\ total_wait_time <= MaxDrainSleeps)
    /\ [][(/\ pc = "drain_sleep"
           /\ total_wait_time' # total_wait_time
           /\ cleanup_expired_requests(pending_responses, now) = <<>>
           /\ \A id \in DOMAIN current_session.tracks :
                  current_session.tracks[id].status \in {COMPLETED, FAILED}) =>
              /\ pc' = "done"
              /\ current_session'.completed_at # Null]_vars

(* The run is over though the bot never answered the second batch: the     *)
(* drain was ended by its limit, the track is still SENT_TO_BOT.           *)
C29_Witness ==
    /\ pc = "done"
    /\ run.tracks = <<11, 12, 21>>
    /\ total_wait_time = MaxDrainSleeps
    /\ current_session.completed_at # Null
    /\ current_session.tracks[21].status = SENT_TO_BOT

-----------------------------------------------------------------------------
(* C30: a file event matched to a track marks the track DOWNLOADING at     *)
(* once, and when the handler of that download finishes the track is       *)
(* COMPLETED with its file recorded, or FAILED with an error message that  *)
(* records the specific cause of the failure, one that no other cause is   *)
(* recorded with; the handler never ends with the track DOWNLOADING.       *)
C30_FileHandlerRecordsCause ==
    [][\A t \in TrackIds :
          /\ downloading'[t] > downloading[t] =>
                 current_session'.tracks[t].status = DOWNLOADING
          /\ downloading'[t] < downloading[t] =>
                 LET track == current_session'.tracks[t]
                 IN  \/ /\ track.status = COMPLETED
                        /\ track.file_path # Null
                        /\ track.error_message = Null
                     \/ /\ track.status = FAILED
                        /\ last'.op = "download_failed"
                        /\ track.error_message = download_error(last'.via)
                        /\ \A cause \in DownloadCauses \ {last'.via} :
                               track.error_message # download_error(cause)
      ]_vars

-----------------------------------------------------------------------------
(* C31: on every session a run reaches and for each of its tracks,         *)
(* mark_track_failed adds exactly 1 to the attempts and records the reason *)
(* as error message; mark_track_completed records path and size and clears *)
(* the error message; mark_track_sent and mark_track_downloading leave     *)
(* attempts, error message, path and size as they are; each of them sets   *)
(* the status and leaves every other track and the session fields alone.   *)
C31_MarkUpdatesOneTrack ==
    current_session # None =>
        \A id \in DOMAIN current_session.tracks :
            LET old == current_session.tracks[id]
                OnlyTrack(session) ==
                    /\ session # None
                    /\ DOMAIN session.tracks = DOMAIN current_session.tracks
                    /\ \A other \in DOMAIN session.tracks \ {id} :
                           session.tracks[other] = current_session.tracks[other]
                    /\ [session EXCEPT !.tracks = current_session.tracks]
                           = current_session
                failed == mark_track_failed(current_session, id, "reason")
                completed == mark_track_completed(current_session, id, "file", 2)
                sent == mark_track_sent(current_session, id)
                downloading_now == mark_track_downloading(current_session, id)
            IN  /\ OnlyTrack(failed) /\ OnlyTrack(completed)
                /\ OnlyTrack(sent) /\ OnlyTrack(downloading_now)
                /\ failed.tracks[id] =
                       [old EXCEPT !.status = FAILED, !.attempts = old.attempts + 1,
                                   !.error_message = "reason"]
                /\ completed.tracks[id] =
                       [old EXCEPT !.status = COMPLETED, !.file_path = "file",
                                   !.file_size = 2, !.error_message = Null]
                /\ sent.tracks[id] = [old EXCEPT !.status = SENT_TO_BOT]
                /\ downloading_now.tracks[id] = [old EXCEPT !.status = DOWNLOADING]

(* A download completed for a track that had failed before, its error      *)
(* message cleared and its attempts kept, beside a track failed once.      *)
C31_Witness ==
    /\ current_session # None
    /\ \E id \in DOMAIN current_session.tracks :
           /\ current_session.tracks[id].status = COMPLETED
           /\ current_session.tracks[id].attempts > 0
           /\ current_session.tracks[id].error_message = Null
           /\ current_session.tracks[id].file_path # Null
    /\ \E id \in DOMAIN current_session.tracks :
           /\ current_session.tracks[id].status = FAILED
           /\ current_session.tracks[id].attempts = 1
           /\ current_session.tracks[id].error_message # Null

-----------------------------------------------------------------------------
(* C32: with sends, clicks and downloads suspended and events handled in   *)
(* between, every step changes the pending map by one whole operation on   *)
(* the map as it is at that step: an insert adds one key and removes       *)
(* none; a live request leaves the map only as the one request the match   *)
(* of that step returned, or by the trim after an unmatched file; the      *)
(* returned request was in the map, is out of it, and has been returned    *)
(* once; no key is held twice.                                             *)
C32_MapOperationsAtomic ==
    [][LET KeysOf(p) == {p[i].key : i \in 1..Len(p)}
           before == KeysOf(pending_responses)
           after == KeysOf(pending_responses')
           purged == cleanup_expired_requests(pending_responses, now)
           live == KeysOf(purged)
           matched == last'.op \in {"file", "buttons", "photo"}
           trimmed == IF last'.op = "unmatched"
                      THEN live \ KeysOf(cleanup_orphaned_requests(purged))
                      ELSE {}
       IN  /\ Cardinality(after \ before) <= 1
           /\ after \ before # {} => before \subseteq after
           /\ (before \cap live) \ after \subseteq
                  (IF matched THEN {last'.req.key} ELSE {}) \cup trimmed
           /\ matched => /\ last'.req.key \in live
                          /\ last'.req.key \notin after
                          /\ match_count'[last'.req.key] = 1
           /\ Cardinality(after) = Len(pending_responses')
      ]_vars

(* A file event is matched while a send is in its delay and a click is     *)
(* awaited.                                                                *)
C32_Witness ==
    /\ pc = "delay"
    /\ clicking # {}
    /\ last.op = "file"
    /\ \E t \in TrackIds : downloading[t] > 0

-----------------------------------------------------------------------------
(* C33: in a run that sends each track once, when the delay after a send   *)
(* ends and the orchestrator records the send, a status that a handler     *)
(* wrote for the track during the delay (DOWNLOADING, COMPLETED or FAILED) *)
(* is still the track's status.                                            *)
C33_HandlerStatusKept ==
    [][( /\ pc = "delay"
         /\ pc' # "delay"
         /\ Cardinality(Range(run.tracks)) = Len(run.tracks)
         /\ current_session.tracks[track_at].status
                \in {DOWNLOADING, COMPLETED, FAILED} )
       => current_session'.tracks[track_at].status
              = current_session.tracks[track_at].status
      ]_vars

-----------------------------------------------------------------------------
(* C34: while the click on a matched button prompt is awaited, no bot      *)
(* event is handled with the prompt's track lacking a request in the       *)
(* pending map: a file event handled then is not reported unmatched and    *)
(* is not matched by FIFO to the request of another track.                 *)
C34_ClickedTrackCorrelated ==
    [][LET clicked == {c.matched_request.track : c \in clicking}
       IN  ( /\ clicking # {}
             /\ last'.op \in {"file", "buttons", "photo", "unmatched"} )
           => /\ clicked \subseteq PendingTracks(pending_responses)
              /\ last'.op # "unmatched"
              /\ (last'.op = "file" /\ last'.via = "fifo")
                     => last'.req.track \in clicked
      ]_vars

-----------------------------------------------------------------------------
(* C35: a track that the batch wait marked FAILED with "Batch timeout"     *)
(* while its download was running is the same when the handler of that     *)
(* download finishes: FAILED, the same reason, the same attempts.          *)
C35_BatchTimeoutStands ==
    [][\A t \in TrackIds :
          ( /\ downloading[t] > 0
            /\ downloading'[t] < downloading[t]
            /\ current_session.tracks[t].status = FAILED
            /\ current_session.tracks[t].error_message = "Batch timeout" )
          => current_session'.tracks[t] = current_session.tracks[t]
      ]_vars

-----------------------------------------------------------------------------
(* C36: at the step that marks the session completed, no track of the      *)
(* session is SENT_TO_BOT or DOWNLOADING.                                  *)
C36_CompletedLeavesNoneInFlight ==
    [][( /\ current_session # None
         /\ current_session.completed_at = Null
         /\ current_session'.completed_at # Null )
       => \A id \in DOMAIN current_session'.tracks :
              current_session'.tracks[id].status \notin {SENT_TO_BOT, DOWNLOADING}
      ]_vars

-----------------------------------------------------------------------------
(* C37: a resume without limit selects every track that the persisted      *)
(* session holds as SENT_TO_BOT or DOWNLOADING, and goes on to dispatch.   *)
C37_InFlightTracksResumed ==
    [][( /\ pc = "start"
         /\ pc' \in {"sending", "done"}
         /\ run.limit = 0 )
       => LET session == load_session(progress_file)
          IN  \A id \in DOMAIN session.tracks :
                  session.tracks[id].status \in {SENT_TO_BOT, DOWNLOADING}
                      => /\ id \in Range(run.tracks)
                         /\ pc' = "sending"
      ]_vars

-----------------------------------------------------------------------------
(* C38: when the persisted session holds a FAILED track with fewer than    *)
(* max_attempts attempts, get_resume_info, answering from stats that are   *)
(* those of that session, returns can_resume = true.                       *)
C38_RetryableFailedIsResumable ==
    call.name = "get_resume_info" =>
        LET session == load_session(progress_file)
        IN  ( /\ session # None
              /\ stats_cache = session_stats(session)
              /\ \E id \in DOMAIN session.tracks :
                     /\ session.tracks[id].status = FAILED
                     /\ session.tracks[id].attempts < max_attempts )
            => /\ call.info # None
               /\ call.info.can_resume

-----------------------------------------------------------------------------
(* C39 as stated: every message of the bot is handled by one of the four   *)
(* handlers, file, button prompt, not found or text.                       *)
C39_EveryMessageHasHandler ==
    [][\A msg \in Messages :
          BotMessage(msg) => handler_of(msg) \in {"file", "buttons", "photo", "text"}
      ]_vars

(* C39: a message with a document is handled as a file; else one with      *)
(* buttons as a button prompt; else one with a photo as not found; else    *)
(* one with text as text, and a message with none of them by no handler.   *)
(* The handling removes at most one request that has not expired; for a    *)
(* message with text only, or with nothing, it removes none and leaves     *)
(* the session as it is.                                                   *)
C39_OneHandlerByPriority ==
    [][\A msg \in Messages :
          BotMessage(msg) =>
              LET KeysOf(p) == {p[i].key : i \in 1..Len(p)}
                  live == KeysOf(cleanup_expired_requests(pending_responses, now))
                  removed == live \ KeysOf(pending_responses')
              IN  /\ msg.document => BotFile
                  /\ (~msg.document /\ msg.buttons) => BotButtons
                  /\ (~msg.document /\ ~msg.buttons /\ msg.photo) => BotPhoto
                  /\ Cardinality(removed) <= 1
                  /\ (~msg.document /\ ~msg.buttons /\ ~msg.photo)
                         => /\ removed = {}
                            /\ current_session' = current_session
                            /\ clicking' = clicking
                            /\ downloading' = downloading
      ]_vars

(* A message with a document was handled as a file and took one of two     *)
(* live requests out of the map.                                           *)
C39_Witness ==
    /\ run.tracks = <<11, 12>>
    /\ last.op = "file"
    /\ Len(pending_responses) = 1
    /\ \E t \in TrackIds : downloading[t] > 0

-----------------------------------------------------------------------------
(* C40: for a file event that no pending request matches with a score of   *)
(* 70 or more, the heuristic client takes its FIFO path and returns the    *)
(* request of the same send as the FIFO-only client does, and none when    *)
(* the FIFO-only client returns none, after every sequence of sends, file  *)
(* events and ticks.                                                       *)
C40_FallbackEqualsFifoOnly ==
    last.op = "compared" =>
        /\ last.via \in {"fifo", "none"}
        /\ IF last.req = None THEN last.fifo_only = None
           ELSE /\ last.fifo_only # None
                /\ last.fifo_only =
                       [message_id |-> last.req.message_id,
                        track |-> last.req.track,
                        sent_at |-> last.req.sent_at]

(* Both clients returned the request of the second send, the FIFO-only     *)
(* client passing over an expired request that it still holds.             *)
C40_Witness ==
    /\ last.op = "compared"
    /\ last.req # None
    /\ last.req.message_id = 2
    /\ Len(run.pending_responses) >= 1
    /\ run.pending_responses[1].message_id = 1
    /\ Len(pending_responses) < Len(run.pending_responses)

====
